---- MODULE Spec2Model ----
(***************************************************************************)
(* Model of the TLS-terminating reverse proxy (src/src/proxy.rs).          *)
(*                                                                         *)
(* One inbound request is followed from proxy_handler to the response and, *)
(* for a WebSocket upgrade, through the life of the spawned tunnel task.   *)
(* Strings are TLA+ strings and are taken apart character by character     *)
(* (SubSeq / Len / \o), so lower-casing, trimming, substring search, the   *)
(* formatting of an IP address and the parsing of a URI are computed, not  *)
(* assumed.                                                                *)
(***************************************************************************)
EXTENDS Integers, Sequences, FiniteSets, TLC

(***************************************************************************)
(* Bounds of the model.                                                    *)
(***************************************************************************)
\* Header lines of an inbound request when the connection context is one of
\* SmallContexts.
MaxHeaders == 2
\* Header lines of an inbound request under every connection context.
MaxHeadersWide == 0
\* Messages the two peers of a tunnel send, both together, when the connection
\* context is one of SmallContexts.
MaxMessages == 2
\* Messages the two peers of a tunnel send under every connection context.
MaxMessagesWide == 0

(***************************************************************************)
(* Option and Result values.                                               *)
(***************************************************************************)
None == <<>>
Some(v) == <<v>>
IsSome(o) == o # <<>>
Unwrap(o) == o[1]
UnwrapOr(o, d) == IF o = <<>> THEN d ELSE o[1]

Ok(v) == [ok |-> TRUE, val |-> v]
Err(e) == [ok |-> FALSE, err |-> e]

(***************************************************************************)
(* Strings (str / String of the Rust standard library).                    *)
(***************************************************************************)
Ch(s, i) == SubSeq(s, i, i)
Chars(s) == {Ch(s, i) : i \in 1..Len(s)}

UpperLetters == "ABCDEFGHIJKLMNOPQRSTUVWXYZ"
LowerLetters == "abcdefghijklmnopqrstuvwxyz"
Digits == "0123456789"
\* Visible ASCII that is neither a letter nor a digit, plus the space.
Punctuation == " !$%&'()*+,-./:;<=>?@[]^_{|}~#"

\* The lower-case letter of each upper-case letter
LowerOf ==
    [c \in Chars(UpperLetters) |->
        Ch(LowerLetters, CHOOSE i \in 1..Len(UpperLetters) : Ch(UpperLetters, i) = c)]

\* char::to_ascii_lowercase on one character
LowerChar(c) == IF c \in DOMAIN LowerOf THEN LowerOf[c] ELSE c

RECURSIVE LowerFrom(_, _)
LowerFrom(s, i) ==
    IF i > Len(s) THEN "" ELSE LowerChar(Ch(s, i)) \o LowerFrom(s, i + 1)

\* str::to_lowercase (on text that to_str has shown to be ASCII) and the
\* lower-casing of a header name
to_lowercase(s) == LowerFrom(s, 1)

\* str::contains(pattern)
contains(s, pat) ==
    \E i \in 1..(Len(s) - Len(pat) + 1) : SubSeq(s, i, i + Len(pat) - 1) = pat

\* str::starts_with(prefix)
starts_with(s, prefix) ==
    Len(s) >= Len(prefix) /\ SubSeq(s, 1, Len(prefix)) = prefix

IsWhitespace(c) == c \in {" ", "\t"}

\* str::trim: the text without its leading and trailing whitespace
trim(s) ==
    LET keep == {i \in 1..Len(s) : ~IsWhitespace(Ch(s, i))}
    IN  IF keep = {} THEN ""
        ELSE SubSeq(s, CHOOSE i \in keep : \A j \in keep : i <= j,
                       CHOOSE i \in keep : \A j \in keep : j <= i)

RECURSIVE join(_, _)
\* [&str]::join(sep)
join(strs, sep) ==
    IF Len(strs) = 0 THEN ""
    ELSE IF Len(strs) = 1 THEN strs[1]
    ELSE strs[1] \o sep \o join(Tail(strs), sep)

RECURSIVE u8_to_string(_)
\* Display of an unsigned integer: its decimal digits, no leading zero
u8_to_string(n) ==
    IF n < 10 THEN Ch(Digits, n + 1)
    ELSE u8_to_string(n \div 10) \o Ch(Digits, (n % 10) + 1)

\* Ipv4Addr::to_string: the four octets in decimal, joined by dots
ip_to_string(ip) ==
    join([i \in 1..4 |-> u8_to_string(ip[i])], ".")

(***************************************************************************)
(* HeaderValue (http crate).  A value is a string of bytes.  A byte above   *)
(* 0x7F (obs-text, which the wire format allows in a header value) is      *)
(* written ObsText: the module text is ASCII, and the form feed is a       *)
(* character no header value can hold.                                     *)
(***************************************************************************)
ObsText == "\f"

VisibleAscii ==
    Chars(UpperLetters) \cup Chars(LowerLetters) \cup Chars(Digits)
    \cup Chars(Punctuation) \cup {"\t"}

IsVisibleAscii(c) == c \in VisibleAscii

\* HeaderValue::to_str().ok(): the text, when every byte is visible ASCII
to_str(v) ==
    IF \A i \in 1..Len(v) : IsVisibleAscii(Ch(v, i)) THEN Some(v) ELSE None

\* HeaderValue::from_str: refuses control characters, accepts obs-text
HeaderValue_from_str(s) ==
    IF \E i \in 1..Len(s) : Ch(s, i) \in {"\n", "\r"}
    THEN Err("failed to parse header value")
    ELSE Ok(s)

(***************************************************************************)
(* HeaderMap (http crate): a multimap from lower-case header names to the  *)
(* values of that name in insertion order.  A name is in the DOMAIN exactly*)
(* when it has at least one value.                                         *)
(***************************************************************************)
EmptyHeaders == [n \in {} |-> <<>>]

\* HeaderMap::get_all(name), as the sequence of its values
get_all(h, name) == IF name \in DOMAIN h THEN h[name] ELSE <<>>

\* HeaderMap::get(name): the first value of the name
get(h, name) == IF name \in DOMAIN h THEN Some(h[name][1]) ELSE None

\* HeaderMap::contains_key(name)
contains_key(h, name) == name \in DOMAIN h

\* HeaderMap::insert(name, value): the name keeps this one value only
insert(h, name, value) ==
    [n \in DOMAIN h \cup {name} |-> IF n = name THEN <<value>> ELSE h[n]]

\* HeaderMap::append(name, value): one more value for the name
append(h, name, value) ==
    [n \in DOMAIN h \cup {name} |->
        IF n = name THEN Append(get_all(h, name), value) ELSE h[n]]

\* HeaderMap::remove(name): every value of the name goes
remove(h, name) == [n \in DOMAIN h \ {name} |-> h[n]]

RECURSIVE HeaderMapOf(_)
\* The header map of a request whose header lines are `lines` (pairs of a
\* name as spelled by the sender and a value): Request::builder().header(..)
\* and the parser of the server both lower-case the name and append the value.
HeaderMapOf(lines) ==
    IF Len(lines) = 0 THEN EmptyHeaders
    ELSE LET last == lines[Len(lines)]
         IN  append(HeaderMapOf(SubSeq(lines, 1, Len(lines) - 1)),
                    to_lowercase(last[1]), last[2])

RECURSIVE FilterMapText(_)
\* .iter().filter_map(|v| v.to_str().ok()): the values that are text
FilterMapText(vals) ==
    IF Len(vals) = 0 THEN <<>>
    ELSE LET t == to_str(vals[1])
         IN  (IF IsSome(t) THEN <<Unwrap(t)>> ELSE <<>>)
             \o FilterMapText(Tail(vals))
(***************************************************************************)
(* Uri (http crate): scheme and authority are optional, path_and_query is  *)
(* the stored text (possibly empty).                                       *)
(***************************************************************************)
SchemeChars ==
    Chars(UpperLetters) \cup Chars(LowerLetters) \cup Chars(Digits)
    \cup {"+", "-", "."}

IsSchemeChar(c) == c \in SchemeChars

\* Position of the first character of s, from position `from` on, that is in
\* the set `stops`; Len(s) + 1 when there is none
FirstOf(s, from, stops) ==
    LET hits == {i \in from..Len(s) : Ch(s, i) \in stops}
    IN  IF hits = {} THEN Len(s) + 1
        ELSE CHOOSE i \in hits : \A j \in hits : i <= j

\* Scheme2::parse: the length of the scheme when s starts with
\* "<scheme chars>://", 0 when it has no scheme
SchemeLen(s) ==
    LET nonScheme == {i \in 1..Len(s) : ~IsSchemeChar(Ch(s, i))}
        stop == IF nonScheme = {} THEN Len(s) + 1
                ELSE CHOOSE i \in nonScheme : \A j \in nonScheme : i <= j
    IN  IF /\ stop > 1
           /\ stop + 2 <= Len(s)
           /\ SubSeq(s, stop, stop + 2) = "://"
        THEN stop - 1
        ELSE 0

\* Scheme2::parse: http and https are recognised whatever their case, any
\* other scheme is kept as written
SchemeOf(text) ==
    IF to_lowercase(text) \in {"http", "https"} THEN to_lowercase(text) ELSE text

\* The text up to (not including) its fragment
CutFragment(s) == SubSeq(s, 1, FirstOf(s, 1, {"#"}) - 1)

\* <Uri as FromStr>::from_str (str::parse::<Uri>)
ParseUri(s) ==
    IF Len(s) = 0 THEN Err("empty string")
    ELSE IF \E i \in 1..Len(s) : ~IsVisibleAscii(Ch(s, i)) \/ IsWhitespace(Ch(s, i))
    THEN Err("invalid uri character")
    ELSE IF Ch(s, 1) = "/"
    THEN Ok([scheme |-> None, authority |-> None, path_and_query |-> CutFragment(s)])
    ELSE LET sl == SchemeLen(s)
             rest == IF sl = 0 THEN s ELSE SubSeq(s, sl + 4, Len(s))
             authority_end == FirstOf(rest, 1, {"/", "?", "#"}) - 1
         IN  IF sl = 0
             THEN IF authority_end # Len(rest)
                  THEN Err("invalid format")
                  ELSE Ok([scheme |-> None, authority |-> Some(rest),
                           path_and_query |-> ""])
             ELSE IF authority_end = 0
                  THEN Err("invalid format")
                  ELSE Ok([scheme |-> Some(SchemeOf(SubSeq(s, 1, sl))),
                           authority |-> Some(SubSeq(rest, 1, authority_end)),
                           path_and_query |->
                               CutFragment(SubSeq(rest, authority_end + 1, Len(rest)))])

\* PathAndQuery::as_str: "/" stands for an empty path
pq_as_str(pq) == IF pq = "" THEN "/" ELSE pq

\* Uri::path_and_query: absent only for an authority-form URI
path_and_query(u) ==
    IF IsSome(u.scheme) \/ ~IsSome(u.authority)
    THEN Some(u.path_and_query)
    ELSE None

\* Uri::scheme_str
scheme_str(u) == u.scheme

\* Uri::authority
authority(u) == u.authority

\* <Uri as Display>::to_string
uri_to_string(u) ==
    (IF IsSome(u.scheme) THEN Unwrap(u.scheme) \o "://" ELSE "")
    \o UnwrapOr(u.authority, "")
    \o (IF u.path_and_query # "" \/ IsSome(u.scheme)
        THEN pq_as_str(u.path_and_query) ELSE "")

(***************************************************************************)
(* src/src/proxy.rs: the pure functions.                                   *)
(***************************************************************************)
\* header_contains(req, name, value)
header_contains(req, name, value) ==
    LET texts == FilterMapText(get_all(req.headers, name))
    IN  \E i \in 1..Len(texts) : contains(to_lowercase(texts[i]), value)

\* is_websocket_upgrade with `||` in place of `&&`
is_websocket_upgrade_either(req) ==
    \/ header_contains(req, "connection", "upgrade")
    \/ header_contains(req, "upgrade", "websocket")

\* is_websocket_upgrade(req)
is_websocket_upgrade(req) ==
    /\ header_contains(req, "connection", "upgrade")
    /\ header_contains(req, "upgrade", "websocket")

RECURSIVE TrimmedNonEmpty(_)
\* .map(|s| s.trim()).filter(|s| !s.is_empty())
TrimmedNonEmpty(texts) ==
    IF Len(texts) = 0 THEN <<>>
    ELSE (IF trim(texts[1]) # "" THEN <<trim(texts[1])>> ELSE <<>>)
         \o TrimmedNonEmpty(Tail(texts))

\* normalize_cookie_headers rewriting a single cookie too
\* (`cookies.len() < 1` for `cookies.len() <= 1`)
normalize_cookie_headers_single_too(headers) ==
    LET cookies == TrimmedNonEmpty(FilterMapText(get_all(headers, "cookie")))
    IN  IF Len(cookies) < 1 THEN Ok(headers)
        ELSE LET merged == HeaderValue_from_str(join(cookies, "; "))
             IN  IF ~merged.ok THEN merged
                 ELSE Ok(insert(remove(headers, "cookie"), "cookie", merged.val))

\* A normalisation that joins the X-Forwarded-For lines as well (with ", ")
normalize_cookie_headers_and_forwarded_for(headers) ==
    LET cookies == TrimmedNonEmpty(FilterMapText(get_all(headers, "cookie")))
        hops == TrimmedNonEmpty(FilterMapText(get_all(headers, "x-forwarded-for")))
        joined == IF Len(hops) <= 1 THEN headers
                  ELSE insert(remove(headers, "x-forwarded-for"),
                              "x-forwarded-for", join(hops, ", "))
    IN  IF Len(cookies) <= 1 THEN Ok(joined)
        ELSE LET merged == HeaderValue_from_str(join(cookies, "; "))
             IN  IF ~merged.ok THEN merged
                 ELSE Ok(insert(remove(joined, "cookie"), "cookie", merged.val))

\* normalize_cookie_headers(headers): Ok(the headers afterwards) or Err
normalize_cookie_headers(headers) ==
    LET cookies == TrimmedNonEmpty(FilterMapText(get_all(headers, "cookie")))
    IN  IF Len(cookies) <= 1 THEN Ok(headers)
        ELSE LET merged == HeaderValue_from_str(join(cookies, "; "))
             IN  IF ~merged.ok THEN merged
                 ELSE Ok(insert(remove(headers, "cookie"), "cookie", merged.val))

\* xff_value without the test for an empty existing value
xff_value_always_appending(headers, client_addr) ==
    LET existing == get(headers, "x-forwarded-for")
    IN  IF IsSome(existing)
        THEN UnwrapOr(to_str(Unwrap(existing)), "")
             \o ", " \o ip_to_string(client_addr.ip)
        ELSE ip_to_string(client_addr.ip)

\* xff_value taking the last X-Forwarded-For line instead of the first
xff_value_from_last_line(headers, client_addr) ==
    LET lines == get_all(headers, "x-forwarded-for")
    IN  IF lines # <<>>
        THEN LET existing_str == UnwrapOr(to_str(lines[Len(lines)]), "")
             IN  IF trim(existing_str) = ""
                 THEN ip_to_string(client_addr.ip)
                 ELSE existing_str \o ", " \o ip_to_string(client_addr.ip)
        ELSE ip_to_string(client_addr.ip)

\* The X-Forwarded-For value add_forwarding_headers computes (proxy.rs 89-99)
xff_value(headers, client_addr) ==
    LET existing == get(headers, "x-forwarded-for")
    IN  IF IsSome(existing)
        THEN LET existing_str == UnwrapOr(to_str(Unwrap(existing)), "")
             IN  IF trim(existing_str) = ""
                 THEN ip_to_string(client_addr.ip)
                 ELSE existing_str \o ", " \o ip_to_string(client_addr.ip)
        ELSE ip_to_string(client_addr.ip)

\* The X-Real-IP step setting the header only when the client sent none
set_real_ip_unless_present(headers, value) ==
    IF contains_key(headers, "x-real-ip") THEN headers
    ELSE insert(headers, "x-real-ip", value)

\* X-Real-IP step of add_forwarding_headers (proxy.rs 82-86)
set_real_ip(headers, value) == insert(headers, "x-real-ip", value)

\* The insert without the contains_key test around it
insert_always(headers, name, value) == insert(headers, name, value)

\* `if !headers.contains_key(name) { headers.insert(name, value) }`
insert_if_absent(headers, name, value) ==
    IF ~contains_key(headers, name) THEN insert(headers, name, value) ELSE headers

\* X-Forwarded-Host step of add_forwarding_headers (proxy.rs 108-113)
set_forwarded_host(headers, original_host) ==
    IF IsSome(original_host)
    THEN insert_if_absent(headers, "x-forwarded-host", Unwrap(original_host))
    ELSE headers

\* add_forwarding_headers(headers, client_addr, original_host):
\* Ok(the headers afterwards) or Err
add_forwarding_headers(headers, client_addr, original_host) ==
    LET real_ip == HeaderValue_from_str(ip_to_string(client_addr.ip))
    IN  IF ~real_ip.ok THEN real_ip
        ELSE LET h1 == set_real_ip(headers, real_ip.val)
                 xff == HeaderValue_from_str(xff_value(h1, client_addr))
             IN  IF ~xff.ok THEN xff
                 ELSE LET h2 == insert(h1, "x-forwarded-for", xff.val)
                          h3 == insert_if_absent(h2, "x-forwarded-proto", "https")
                          h4 == set_forwarded_host(h3, original_host)
                          h5 == insert_if_absent(h4, "x-forwarded-port", "443")
                      IN  Ok(h5)

\* The names remove_hop_by_hop_headers removes, in its order
HopByHopHeaders ==
    <<"connection", "keep-alive", "proxy-authenticate", "proxy-authorization",
      "te", "trailers", "transfer-encoding", "upgrade">>

RECURSIVE RemoveEach(_, _)
RemoveEach(headers, names) ==
    IF Len(names) = 0 THEN headers
    ELSE RemoveEach(remove(headers, names[1]), Tail(names))

\* remove_hop_by_hop_headers without `headers.remove("te")`
remove_hop_by_hop_headers_keeping_te(headers) ==
    RemoveEach(headers,
               <<"connection", "keep-alive", "proxy-authenticate",
                 "proxy-authorization", "trailers", "transfer-encoding",
                 "upgrade">>)

\* remove_hop_by_hop_headers(headers)
remove_hop_by_hop_headers(headers) == RemoveEach(headers, HopByHopHeaders)

\* The path and query build_upstream_uri and handle_websocket_upgrade take
\* from the inbound URI (proxy.rs 191-194, 262-266)
inbound_path_and_query(original) ==
    IF IsSome(path_and_query(original))
    THEN pq_as_str(Unwrap(path_and_query(original)))
    ELSE "/"

\* The scheme build_upstream_uri writes (proxy.rs 199)
upstream_scheme(target_uri) == UnwrapOr(scheme_str(target_uri), "http")

\* build_upstream_uri appending the inbound path to the whole target string
build_upstream_uri_keeping_target_path(original, target) ==
    LET target_uri == ParseUri(target)
    IN  IF ~target_uri.ok THEN target_uri
        ELSE ParseUri(target \o inbound_path_and_query(original))

\* build_upstream_uri refusing a target that has no scheme
build_upstream_uri_requiring_scheme(original, target) ==
    LET target_uri == ParseUri(target)
    IN  IF ~target_uri.ok THEN target_uri
        ELSE IF ~IsSome(scheme_str(target_uri.val)) THEN Err("invalid format")
        ELSE ParseUri(Unwrap(scheme_str(target_uri.val)) \o "://"
                      \o UnwrapOr(authority(target_uri.val), "")
                      \o inbound_path_and_query(original))

\* build_upstream_uri(original, target): Ok(uri) or Err
build_upstream_uri(original, target) ==
    LET target_uri == ParseUri(target)
    IN  IF ~target_uri.ok THEN target_uri
        ELSE ParseUri(upstream_scheme(target_uri.val) \o "://"
                      \o UnwrapOr(authority(target_uri.val), "")
                      \o inbound_path_and_query(original))

\* The host build_upstream_request saves before it touches the headers
\* (proxy.rs 216-221)
original_host_of(parts) ==
    IF IsSome(get(parts.headers, "host"))
    THEN get(parts.headers, "host")
    ELSE IF IsSome(authority(parts.uri))
         THEN LET v == HeaderValue_from_str(Unwrap(authority(parts.uri)))
              IN  IF v.ok THEN Some(v.val) ELSE None
         ELSE None

\* The version build_upstream_request pins (proxy.rs 227)
upstream_version == "HTTP/1.1"

\* The three header steps of build_upstream_request, in the order of its
\* calls (proxy.rs 229-236)
header_pipeline ==
    <<"add_forwarding_headers", "remove_hop_by_hop_headers",
      "normalize_cookie_headers">>

\* build_upstream_request without its call of normalize_cookie_headers
build_upstream_request_cookies_as_they_came(req, upstream_uri, client_addr) ==
    LET fwd == add_forwarding_headers(req.headers, client_addr,
                                      original_host_of(req))
    IN  IF ~fwd.ok THEN fwd
        ELSE Ok([method |-> req.method,
                 uri |-> upstream_uri,
                 version |-> upstream_version,
                 headers |-> remove_hop_by_hop_headers(fwd.val),
                 body |-> req.body])

\* build_upstream_request saving the host only after `parts.uri = upstream_uri`
build_upstream_request_host_late(req, upstream_uri, client_addr) ==
    LET parts == [req EXCEPT !.uri = upstream_uri]
        original_host == original_host_of(parts)
        fwd == add_forwarding_headers(parts.headers, client_addr, original_host)
    IN  IF ~fwd.ok THEN fwd
        ELSE LET cookies == normalize_cookie_headers(remove_hop_by_hop_headers(fwd.val))
             IN  IF ~cookies.ok THEN cookies
                 ELSE Ok([method |-> parts.method,
                          uri |-> upstream_uri,
                          version |-> upstream_version,
                          headers |-> cookies.val,
                          body |-> parts.body])

\* build_upstream_request without `parts.version = Version::HTTP_11`
build_upstream_request_keeping_version(req, upstream_uri, client_addr) ==
    LET fwd == add_forwarding_headers(req.headers, client_addr,
                                      original_host_of(req))
    IN  IF ~fwd.ok THEN fwd
        ELSE LET cookies == normalize_cookie_headers(remove_hop_by_hop_headers(fwd.val))
             IN  IF ~cookies.ok THEN cookies
                 ELSE Ok([method |-> req.method,
                          uri |-> upstream_uri,
                          version |-> req.version,
                          headers |-> cookies.val,
                          body |-> req.body])

\* build_upstream_request(req, upstream_uri, client_addr): Ok(request) or Err
build_upstream_request(req, upstream_uri, client_addr) ==
    LET parts == req
        original_host == original_host_of(parts)
        fwd == add_forwarding_headers(parts.headers, client_addr, original_host)
    IN  IF ~fwd.ok THEN fwd
        ELSE LET cookies == normalize_cookie_headers(remove_hop_by_hop_headers(fwd.val))
             IN  IF ~cookies.ok THEN cookies
                 ELSE Ok([method |-> parts.method,
                          uri |-> upstream_uri,
                          version |-> upstream_version,
                          headers |-> cookies.val,
                          body |-> parts.body])

\* bad_gateway_response without its content-type header
bad_gateway_response_untyped(message) ==
    [status |-> 502,
     headers |-> EmptyHeaders,
     body |-> "502 Bad Gateway - " \o message]

\* bad_gateway_response(message)
bad_gateway_response(message) ==
    [status |-> 502,
     headers |-> insert(EmptyHeaders, "content-type", "text/plain; charset=utf-8"),
     body |-> "502 Bad Gateway - " \o message]

\* forward_request stripping the hop-by-hop headers of the response too
response_from_upstream_stripped(resp) ==
    [status |-> resp.status,
     headers |-> remove_hop_by_hop_headers(resp.headers),
     body |-> resp.body]

\* Response::from_parts(parts, Body::new(body)) of forward_request
\* (proxy.rs 174-176)
response_from_upstream(resp) ==
    [status |-> resp.status, headers |-> resp.headers, body |-> resp.body]

\* derive_accept_key(key) of tungstenite: base64(SHA-1(key ++ GUID)).  The
\* digest is not computed here; the result is kept as the term it is.
derive_accept_key(key) == "accept-key-of(" \o key \o ")"

\* The 101 response handle_websocket_upgrade builds (proxy.rs 281-287)
switching_protocols_response(accept_key) ==
    [status |-> 101,
     headers |-> insert(insert(insert(EmptyHeaders,
                    "connection", "Upgrade"),
                    "upgrade", "websocket"),
                    "sec-websocket-accept", accept_key),
     body |-> ""]

\* A scheme of the upstream WebSocket URL that is "wss" for every target
\* scheme but http
websocket_scheme_tls_unless_http(target_uri) ==
    IF scheme_str(target_uri) \in {None, Some("http")} THEN "ws" ELSE "wss"

\* The scheme of the upstream WebSocket URL (proxy.rs 257-260)
websocket_scheme(target_uri) ==
    IF scheme_str(target_uri) = Some("https") THEN "wss" ELSE "ws"

\* The upstream WebSocket URL (proxy.rs 262-269)
upstream_websocket_url(req, target_uri) ==
    websocket_scheme(target_uri) \o "://"
    \o UnwrapOr(authority(target_uri), "")
    \o inbound_path_and_query(req.uri)

\* http_client.request behind a retry: the request is handed over twice
client_request_with_retry(sent, upstream_req) ==
    Append(Append(sent, upstream_req), upstream_req)

\* http_client.request(upstream_req): one more request handed to the client
client_request(sent, upstream_req) == Append(sent, upstream_req)

\* tungstenite's generate_key(): the Sec-WebSocket-Key of the proxy's own
\* handshake, a fresh nonce that owes nothing to the inbound request
generate_key == "cHJveHkncyBvd24gbm9uY2U="

\* <String as IntoClientRequest>::into_client_request: the request of the
\* handshake that connect_async_tls_with_config makes from a URL, or the
\* error that ends the attempt before anything is sent
into_client_request(upstream_url) ==
    LET uri == ParseUri(upstream_url)
    IN  IF ~uri.ok THEN uri
        ELSE IF ~IsSome(authority(uri.val)) THEN Err("No host name in the URL")
        ELSE Ok([method |-> "GET",
                 uri |-> uri.val,
                 headers |->
                     HeaderMapOf(<< <<"Host", Unwrap(authority(uri.val))>>,
                                    <<"Connection", "Upgrade">>,
                                    <<"Upgrade", "websocket">>,
                                    <<"Sec-WebSocket-Version", "13">>,
                                    <<"Sec-WebSocket-Key", generate_key>> >>)])

\* A task that hands the headers of the inbound request, as
\* build_upstream_request would send them, on to the upstream handshake
websocket_client_request_with_inbound_headers(request, client_addr, upstream_url) ==
    LET own == into_client_request(upstream_url)
        sent == build_upstream_request(request, own.val.uri, client_addr)
    IN  IF ~own.ok \/ ~sent.ok THEN own
        ELSE Ok([own.val EXCEPT !.headers =
                    [n \in DOMAIN @ \cup DOMAIN sent.val.headers |->
                        IF n \in DOMAIN @ THEN @[n] ELSE sent.val.headers[n]]])

\* What the task passes to connect_async_tls_with_config as the request: the
\* string upstream_url and nothing of `req` or of the peer (proxy.rs 298-303)
websocket_client_request(request, client_addr, upstream_url) ==
    into_client_request(upstream_url)

\* A task that tries the upstream WebSocket connection a second time
connect_async_tls_with_config_retrying(attempts, request) ==
    Append(Append(attempts, request), request)

\* tokio_tungstenite::connect_async_tls_with_config(request, None, false,
\* Some(connector)) as the task calls it, once (proxy.rs 298-304)
connect_async_tls_with_config(attempts, request) ==
    Append(attempts, request)

\* A task that connects to the upstream whatever hyper::upgrade::on gave
task_connects_whatever_the_upgrade(upgraded, attempts, request) ==
    connect_async_tls_with_config(attempts, request)

\* The connection attempts of the spawned task once hyper::upgrade::on has
\* resolved: one on Ok(upgraded), none on Err (proxy.rs 293-306, 369)
task_connects(upgraded, attempts, request) ==
    IF upgraded
    THEN connect_async_tls_with_config(attempts, request)
    ELSE attempts

(***************************************************************************)
(* tls.rs: NoCertificateVerification, the ServerCertVerifier of the        *)
(* ClientConfig used for every connection to an upstream.                  *)
(***************************************************************************)
\* verify_server_cert of a verifier that looks at the name of the certificate
verify_server_cert_checking_name(end_entity, intermediates, server_name, ocsp_response, now) ==
    IF end_entity.subject = server_name
    THEN Ok("ServerCertVerified")
    ELSE Err("NotValidForName")

\* verify_server_cert (tls.rs 15-24): no argument is looked at
verify_server_cert(end_entity, intermediates, server_name, ocsp_response, now) ==
    Ok("ServerCertVerified")

\* verify_tls12_signature (tls.rs 26-33)
verify_tls12_signature(message, cert, dss) == Ok("HandshakeSignatureValid")

\* verify_tls13_signature (tls.rs 35-42)
verify_tls13_signature(message, cert, dss) == Ok("HandshakeSignatureValid")

\* supported_verify_schemes (tls.rs 44-57)
supported_verify_schemes ==
    <<"RSA_PKCS1_SHA256", "RSA_PKCS1_SHA384", "RSA_PKCS1_SHA512",
      "ECDSA_NISTP256_SHA256", "ECDSA_NISTP384_SHA384", "ECDSA_NISTP521_SHA512",
      "RSA_PSS_SHA256", "RSA_PSS_SHA384", "RSA_PSS_SHA512",
      "ED25519">>

\* No handshake under way
NoHandshake == [phase |-> "none"]

(***************************************************************************)
(* The tunnel of handle_websocket_upgrade: two connections (legs) and two  *)
(* relay loops, one per direction.                                         *)
(***************************************************************************)
Legs == {"client", "upstream"}
Directions == {"client_to_upstream", "upstream_to_client"}

\* client_read / upstream_read: the leg a loop reads from (proxy.rs 325, 343)
SourceOf(d) == IF d = "client_to_upstream" THEN "client" ELSE "upstream"
\* upstream_write / client_write: the leg a loop sends to (proxy.rs 328, 346)
DestinationOf(d) == IF d = "client_to_upstream" THEN "upstream" ELSE "client"

\* `send(msg)` handing the message over twice
relay_send_twice(sent, msg) == Append(Append(sent, msg), msg)
\* `send(msg)` putting the message in front of those sent before
relay_send_in_front(sent, msg) == <<msg>> \o sent
\* `send(msg)` handing every message over as a binary one
relay_send_as_binary(sent, msg) == Append(sent, [msg EXCEPT !.type = "binary"])

\* `destination.send(msg).await` returning Ok: the destination has one more
\* message, the one the loop received (proxy.rs 328, 346)
relay_send(sent, msg) == Append(sent, msg)

\* join! for select!: the task waits for both loops
\* A task that runs the relay loops whatever the upstream connection gave
relay_loops_whatever_the_connect(connected) == [d \in Directions |-> "running"]

\* The relay loops once connect_async_tls_with_config has resolved: both run
\* on Ok (proxy.rs 306-357), neither is ever created on Err (364-366)
relay_loops(connected) ==
    [d \in Directions |-> IF connected THEN "running" ELSE "none"]

select_waiting_for_both(state, d) == [state EXCEPT ![d] = "ended"]

\* One loop for both directions: a direction is served only while no message
\* of the other direction is being sent
select_polls_in_turn(state, sending, d) ==
    /\ state[d] = "running"
    /\ \A x \in Directions \ {d} : sending[x] = None

\* tokio::select! polling the future of loop d: the two loops are separate
\* futures over separate halves of the split streams, and each is polled
\* whenever it can go on, wherever the other one stands (proxy.rs 320-362)
select_polls(state, sending, d) == state[d] = "running"

\* tokio::select! over the two loops, when loop d is over: it returns, and
\* the future of the other loop is dropped where it stands (proxy.rs 359-362)
select(state, d) ==
    [x \in Directions |-> IF x = d THEN "ended" ELSE "dropped"]

(***************************************************************************)
(* Inputs: the requests, peers and targets the model runs the proxy on.    *)
(***************************************************************************)
\* The messages the peers of a tunnel send
Messages ==
    { [type |-> "text", data |-> "Hello WebSocket"],
      [type |-> "binary", data |-> "Hello WebSocket"] }

\* Header lines as a sender spells them: <<name, value>>, grouped by name.
CommonLines ==
    << <<"Connection", "Upgrade">>,
       <<"connection", "keep-alive, Upgrade">>,
       <<"Connection", "keep-alive">>,
       <<"Connection", "upgrade" \o ObsText>>,
       <<"Upgrade", "WebSocket">>,
       <<"upgrade", "h2c">>,
       <<"Sec-WebSocket-Key", "dGhlIHNhbXBsZSBub25jZQ==">>,
       <<"Host", "example.com">>,
       <<"X-Forwarded-For", "10.0.0.1">>,
       <<"x-forwarded-for", "">>,
       <<"x-forwarded-for", " ">>,
       <<"x-forwarded-for", "10.0.0.2" \o ObsText>>,
       <<"X-Real-IP", "6.6.6.6">>,
       <<"x-real-ip", "7.7.7.7">>,
       <<"X-Forwarded-Proto", "http">>,
       <<"X-Forwarded-Port", "8443">>,
       <<"X-Forwarded-Host", "orig.example">>,
       <<"Cookie", "session=abc">>,
       <<"cookie", "token=xyz">>,
       <<"cookie", "">>,
       <<"Keep-Alive", "timeout=5">>,
       <<"Transfer-Encoding", "chunked">>,
       <<"TE", "trailers">>,
       <<"Content-Type", "text/plain">>,
       <<"X-Custom", "value">> >>

\* Header lines that only the requests of NamedChoices carry
RareLines ==
    << <<"Proxy-Authenticate", "Basic">>,
       <<"Proxy-Authorization", "Basic dXNlcg==">>,
       <<"Trailers", "Expires">>,
       <<"x-custom", "other">>,
       <<"Cookie", " lang=en ">>,
       <<"cookie", "id=7" \o ObsText>>,
       <<"X-Forwarded-For", "10.0.0.3">>,
       <<"X-Forwarded-Proto", "https">>,
       <<"X-Forwarded-Port", "443">>,
       <<"Authorization", "Bearer c2VjcmV0">>,
       <<"Sec-WebSocket-Protocol", "chat">> >>

HeaderLines == CommonLines \o RareLines

\* The lines the choices of LineChoices are made of
LineIndex == 1..Len(CommonLines)

\* The first line of the pool with the same (lower-cased) name
NameRank(i) ==
    CHOOSE j \in LineIndex :
        /\ to_lowercase(HeaderLines[j][1]) = to_lowercase(HeaderLines[i][1])
        /\ \A k \in LineIndex :
              to_lowercase(HeaderLines[k][1]) = to_lowercase(HeaderLines[i][1])
                  => j <= k

NameRankOf == [i \in LineIndex |-> NameRank(i)]

\* The handshake of a WebSocket client (Connection: Upgrade, Upgrade:
\* WebSocket, Sec-WebSocket-Key), and the same without its key
HandshakeLines == <<1, 5, 7>>
HandshakeLinesWithoutKey == <<1, 5>>
\* A handshake whose Connection header comes as two lines, the first of which
\* does not ask for the upgrade
SplitConnectionLines == <<3, 1, 5, 7>>
\* A request with a line of every hop-by-hop name (its Upgrade is not a
\* WebSocket one), and other lines, one name of which comes twice
HopByHopLines == <<1, 6, 21, 22, 23, 26, 27, 28, 24, 25, 29>>
\* Requests with three Cookie lines: one of them empty, one with blanks
\* around its value, one that is not text
CookieLines == {<<18, 19, 20>>, <<18, 30, 19>>, <<19, 31, 18>>, <<20, 18, 20>>}
\* A request every step of build_upstream_request has something to do on:
\* a Host, an X-Forwarded-For, a Connection and two Cookie lines
PipelineLines == <<8, 9, 3, 18, 19>>
\* Requests that passed other proxies: two X-Forwarded-For lines with an
\* address each, in either order (the second with a Connection and two
\* Cookie lines as well), and two lines of each forwarding name
ForwardedLines ==
    {<<9, 32>>, <<32, 9, 3, 18, 19>>, <<9, 32, 13, 14, 15, 33, 16, 34>>}
\* The handshake of a WebSocket client that is logged in and came through
\* another proxy: with a Host, an X-Forwarded-For, a Cookie, an Authorization
\* and a Sec-WebSocket-Protocol line
SessionHandshakeLines == <<1, 5, 7, 8, 9, 18, 35, 36>>
NamedChoices ==
    {HandshakeLines, SessionHandshakeLines, HandshakeLinesWithoutKey, SplitConnectionLines,
     <<3, 1, 5>>, HopByHopLines, <<30>>, PipelineLines}
    \cup CookieLines \cup ForwardedLines

RECURSIVE LineChoices(_)
\* The choices of at most n lines of the pool, as sequences of indices.  Names
\* follow the order of the pool (the header map does not keep the order of
\* different names); lines of one name come in every order.
LineChoices(n) ==
    IF n = 0 THEN {<<>>}
    ELSE LET shorter == LineChoices(n - 1)
         IN  shorter \cup
             {Append(c[1], c[2]) :
                 c \in {x \in shorter \X LineIndex :
                          /\ Len(x[1]) = n - 1
                          /\ Len(x[1]) > 0 =>
                               LET last == x[1][Len(x[1])]
                               IN  \/ NameRankOf[last] < NameRankOf[x[2]]
                                   \/ /\ NameRankOf[last] = NameRankOf[x[2]]
                                      /\ last # x[2]}}

\* The choices of header lines under a context of SmallContexts, and under
\* any context
SmallChoices == LineChoices(MaxHeaders) \cup NamedChoices
WideChoices == LineChoices(MaxHeadersWide) \cup NamedChoices

LinesOf(choice) == [k \in 1..Len(choice) |-> HeaderLines[choice[k]]]

\* Request lines: method, request target, version, and the body that follows.
RequestLines ==
    { [method |-> "GET", uri |-> "/", version |-> "HTTP/1.1", body |-> ""],
      [method |-> "GET", uri |-> "/search?q=hello&page=2",
       version |-> "HTTP/1.1", body |-> ""],
      [method |-> "POST", uri |-> "/api/a%20b/../data/?next=%2Fhome&x",
       version |-> "HTTP/1.1", body |-> "name=value"],
      [method |-> "GET", uri |-> "https://front.example/h2?x=1",
       version |-> "HTTP/2.0", body |-> ""],
      [method |-> "GET", uri |-> "http://front.example",
       version |-> "HTTP/1.1", body |-> ""],
      [method |-> "CONNECT", uri |-> "front.example:443",
       version |-> "HTTP/1.1", body |-> ""] }

\* Peer addresses (ConnectInfo<SocketAddr>)
Peers ==
    { [ip |-> <<192, 168, 1, 100>>, port |-> 54321],
      [ip |-> <<10, 0, 0, 50>>, port |-> 12345] }

\* Configured targets (Listener.target: any string, config.rs does not check it)
Targets ==
    { "http://backend:8080", "https://api.example.com",
      "http://backend:8080/base?x=1", "wss://backend:8080", "backend:8080",
      "/base", "not a url", "" }

\* The contexts under which requests of up to MaxHeaders lines are tried
SmallContexts ==
    { [addr |-> [ip |-> <<192, 168, 1, 100>>, port |-> 54321],
       target |-> "http://backend:8080",
       line |-> [method |-> "GET", uri |-> "/search?q=hello&page=2",
                 version |-> "HTTP/1.1", body |-> ""]],
      [addr |-> [ip |-> <<10, 0, 0, 50>>, port |-> 12345],
       target |-> "https://api.example.com",
       line |-> [method |-> "GET", uri |-> "https://front.example/h2?x=1",
                 version |-> "HTTP/2.0", body |-> ""]],
      [addr |-> [ip |-> <<192, 168, 1, 100>>, port |-> 54321],
       target |-> "not a url",
       line |-> [method |-> "GET", uri |-> "/", version |-> "HTTP/1.1",
                 body |-> ""]] }

WideContexts ==
    { [addr |-> a, target |-> t, line |-> l] :
        a \in Peers, t \in Targets, l \in RequestLines }

\* The request the server hands to proxy_handler for a request line and its
\* header lines
InboundRequest(line, lines) ==
    [method |-> line.method,
     uri |-> ParseUri(line.uri).val,
     version |-> line.version,
     headers |-> HeaderMapOf(lines),
     body |-> line.body]

\* What the upstream may answer to a forwarded request
UpstreamResponses ==
    { [status |-> 200,
       headers |-> insert(insert(EmptyHeaders, "content-type", "text/plain"),
                          "connection", "close"),
       body |-> "users list"],
      [status |-> 201,
       headers |-> insert(insert(EmptyHeaders, "x-custom-header", "custom-value"),
                          "cache-control", "no-cache"),
       body |-> "created"],
      [status |-> 404, headers |-> EmptyHeaders, body |-> "not found"],
      [status |-> 502,
       headers |-> insert(EmptyHeaders, "content-type", "text/html"),
       body |-> "<h1>upstream is down</h1>"] }

\* How the client reports a transport failure (Display of its error)
TransportErrors ==
    { "client error (Connect)", "connection closed before message completed" }

(***************************************************************************)
(* State.                                                                  *)
(***************************************************************************)
VARIABLES
    req,            \* the inbound request (Request<Body>)
    addr,           \* the address of the peer (ConnectInfo<SocketAddr>)
    target,         \* the target of the listener the request came in on
    pc,             \* where proxy_handler stands: "start", "awaiting_upstream", "done"
    calls,          \* the paths proxy_handler has sent the request to
    upstream_reqs,  \* the requests handed to http_client.request, in order
    upstream_resp,  \* what the client call returned: None, Some(Ok(..)) or Some(Err(..))
    resp,           \* the response returned to the client: None or Some(response)
    tunnel,         \* the spawned tunnel task: "none", "awaiting_upgrade",
                    \* "connecting", "relaying", "closed"
    ws_connects,    \* the upstream WebSocket connections attempted: the URL
                    \* and the request of the handshake made from it
    log,            \* what tracing::error! has written, in order
    budget,         \* how many messages the peers of the tunnel send at most
    legs,           \* the two connections of the tunnel: "none", "open",
                    \* "peer_closed" (closed by the peer, still held by the
                    \* task), "closed" (dropped by the task)
    loops,          \* the two relay loops: "none", "running", "ended", "dropped"
    pending,        \* per direction: messages the source has sent, not yet read
    received,       \* per direction: messages `next()` has yielded, in order
    held,           \* per direction: the message being sent (None or Some(msg))
    delivered,      \* per direction: messages whose `send` has completed, in order
    tls             \* the TLS handshake with an upstream that the verifier is
                    \* asked about: NoHandshake or a record of it

vars == <<req, addr, target, pc, calls, upstream_reqs, upstream_resp, resp,
          tunnel, ws_connects, log, budget, legs, loops, pending, received,
          held, delivered, tls>>

inputs == <<req, addr, target, budget>>

\* What the relay loops work on
traffic == <<pending, received, held, delivered>>

\* The messages the source of a direction has sent so far, in order
AllSent(d) == received[d] \o pending[d]
\* How many messages the two peers have sent
TotalSent == Len(AllSent("client_to_upstream")) + Len(AllSent("upstream_to_client"))

Init ==
    /\ \E ctx \in SmallContexts \cup WideContexts :
       \E choice \in (IF ctx \in SmallContexts
                       THEN SmallChoices ELSE WideChoices) :
          /\ req = InboundRequest(ctx.line, LinesOf(choice))
          /\ addr = ctx.addr
          /\ target = ctx.target
          /\ budget = IF ctx \in SmallContexts
                      THEN MaxMessages ELSE MaxMessagesWide
    /\ pc = "start"
    /\ calls = <<>>
    /\ upstream_reqs = <<>>
    /\ upstream_resp = None
    /\ resp = None
    /\ tunnel = "none"
    /\ ws_connects = <<>>
    /\ log = <<>>
    /\ legs = [l \in Legs |-> "none"]
    /\ loops = [d \in Directions |-> "none"]
    /\ pending = [d \in Directions |-> <<>>]
    /\ received = [d \in Directions |-> <<>>]
    /\ held = [d \in Directions |-> None]
    /\ delivered = [d \in Directions |-> <<>>]
    /\ tls = NoHandshake

(***************************************************************************)
(* proxy_handler, on a request that is not a WebSocket upgrade:            *)
(* forward_request up to the point where it awaits the client.             *)
(***************************************************************************)
ForwardRequest ==
    /\ pc = "start"
    /\ ~is_websocket_upgrade(req)
    /\ calls' = Append(calls, "forward_request")
    /\ LET upstream_uri == build_upstream_uri(req.uri, target)
           upstream_req == build_upstream_request(req, upstream_uri.val, addr)
       IN  IF ~upstream_uri.ok
           THEN /\ resp' = Some(bad_gateway_response(
                                  "Invalid upstream URI: " \o upstream_uri.err))
                /\ log' = Append(log, "Failed to build upstream URI")
                /\ pc' = "done"
                /\ UNCHANGED upstream_reqs
           ELSE IF ~upstream_req.ok
           THEN /\ resp' = Some(bad_gateway_response(
                                  "Failed to build request: " \o upstream_req.err))
                /\ log' = Append(log, "Failed to build upstream request")
                /\ pc' = "done"
                /\ UNCHANGED upstream_reqs
           ELSE /\ upstream_reqs' = client_request(upstream_reqs, upstream_req.val)
                /\ pc' = "awaiting_upstream"
                /\ UNCHANGED <<resp, log>>
    /\ UNCHANGED <<inputs, tls, upstream_resp, tunnel, ws_connects, legs, loops, traffic>>

\* forward_request, the client call returned Ok(resp) (proxy.rs 173-177)
UpstreamResponds ==
    /\ pc = "awaiting_upstream"
    /\ \E r \in UpstreamResponses :
          /\ upstream_resp' = Some(Ok(r))
          /\ resp' = Some(response_from_upstream(r))
    /\ pc' = "done"
    /\ UNCHANGED <<inputs, tls, calls, upstream_reqs, tunnel, ws_connects, log,
                   legs, loops, traffic>>

\* forward_request, the client call returned Err(e) (proxy.rs 178-181)
UpstreamFails ==
    /\ pc = "awaiting_upstream"
    /\ \E e \in TransportErrors :
          /\ upstream_resp' = Some(Err(e))
          /\ resp' = Some(bad_gateway_response("Upstream connection failed: " \o e))
    /\ log' = Append(log, "Upstream request failed")
    /\ pc' = "done"
    /\ UNCHANGED <<inputs, tls, calls, upstream_reqs, tunnel, ws_connects,
                   legs, loops, traffic>>

(***************************************************************************)
(* proxy_handler, on a WebSocket upgrade: handle_websocket_upgrade, which  *)
(* returns at once and leaves the tunnel to a spawned task.                *)
(***************************************************************************)
\* The connection attempt of the task: upstream_url (proxy.rs 269) and the
\* request made from it
UpstreamAttempt ==
    LET upstream_url == upstream_websocket_url(req, ParseUri(target).val)
    IN  [url |-> upstream_url,
         request |-> websocket_client_request(req, addr, upstream_url)]

\* handle_websocket_upgrade answering a missing key with 400 Bad Request
websocket_upgrade_response_400(request, tgt) ==
    LET target_uri == ParseUri(tgt)
        key == get(request.headers, "sec-websocket-key")
    IN  IF ~target_uri.ok
        THEN bad_gateway_response("Invalid target URI: " \o target_uri.err)
        ELSE IF ~IsSome(key)
        THEN [status |-> 400, headers |-> EmptyHeaders,
              body |-> "Missing Sec-WebSocket-Key"]
        ELSE switching_protocols_response(derive_accept_key(Unwrap(key)))

\* The response handle_websocket_upgrade returns (proxy.rs 252-287, 373)
websocket_upgrade_response(request, tgt) ==
    LET target_uri == ParseUri(tgt)
        key == get(request.headers, "sec-websocket-key")
    IN  IF ~target_uri.ok
        THEN bad_gateway_response("Invalid target URI: " \o target_uri.err)
        ELSE IF ~IsSome(key)
        THEN bad_gateway_response("Missing Sec-WebSocket-Key")
        ELSE switching_protocols_response(derive_accept_key(Unwrap(key)))

\* handle_websocket_upgrade spawning the task before it looks for the key
spawns_tunnel_before_key_check(request, tgt) == ParseUri(tgt).ok

\* Whether handle_websocket_upgrade gets as far as tokio::spawn (proxy.rs 291)
spawns_tunnel(request, tgt) ==
    /\ ParseUri(tgt).ok
    /\ IsSome(get(request.headers, "sec-websocket-key"))

HandleWebsocketUpgrade ==
    /\ pc = "start"
    /\ is_websocket_upgrade(req)
    /\ calls' = Append(calls, "handle_websocket_upgrade")
    /\ resp' = Some(websocket_upgrade_response(req, target))
    /\ tunnel' = IF spawns_tunnel(req, target) THEN "awaiting_upgrade" ELSE "none"
    /\ pc' = "done"
    /\ UNCHANGED <<inputs, tls, upstream_reqs, upstream_resp, ws_connects, log,
                   legs, loops, traffic>>

\* What the handler (as opposed to the spawned task) works on
handler == <<pc, calls, upstream_reqs, upstream_resp, resp>>

\* The task: hyper::upgrade::on(&mut req) resolved Ok, and the task goes on
\* to connect_async_tls_with_config(upstream_url, ..) (proxy.rs 293-306)
ClientUpgraded ==
    /\ tunnel = "awaiting_upgrade"
    /\ pc = "done"
    /\ ws_connects' = task_connects(TRUE, ws_connects, UpstreamAttempt)
    /\ tunnel' = "connecting"
    /\ legs' = [legs EXCEPT !["client"] = IF @ = "peer_closed" THEN @ ELSE "open"]
    /\ UNCHANGED <<inputs, tls, handler, log, loops, traffic>>

\* The task: hyper::upgrade::on(&mut req) resolved Err (proxy.rs 369)
ClientUpgradeFails ==
    /\ tunnel = "awaiting_upgrade"
    /\ pc = "done"
    /\ ws_connects' = task_connects(FALSE, ws_connects, UpstreamAttempt)
    /\ tunnel' = "closed"
    /\ log' = Append(log, "Upgrade error")
    /\ UNCHANGED <<inputs, tls, handler, legs, loops, traffic>>

\* The task: the upstream WebSocket connection is up, both legs are split
\* and the relay loops start (proxy.rs 308-357)
UpstreamConnected ==
    /\ tunnel = "connecting"
    /\ ws_connects[Len(ws_connects)].request.ok
    /\ tunnel' = "relaying"
    /\ legs' = [legs EXCEPT !["upstream"] = "open"]
    /\ loops' = relay_loops(TRUE)
    /\ UNCHANGED <<inputs, tls, handler, ws_connects, log, traffic>>

\* The task: the upstream WebSocket connection failed (proxy.rs 364-366);
\* the task ends and drops the upgraded client connection
UpstreamConnectFails ==
    /\ tunnel = "connecting"
    /\ tunnel' = "closed"
    /\ legs' = [legs EXCEPT !["client"] = "closed"]
    /\ loops' = relay_loops(FALSE)
    /\ log' = Append(log, "Failed to connect to upstream WebSocket")
    /\ UNCHANGED <<inputs, tls, handler, ws_connects, traffic>>

\* A peer sends a message into its leg of the tunnel
PeerSends(d) ==
    /\ tunnel = "relaying"
    /\ legs[SourceOf(d)] = "open"
    /\ TotalSent < budget
    /\ \E msg \in Messages : pending' = [pending EXCEPT ![d] = Append(@, msg)]
    /\ UNCHANGED <<inputs, tls, handler, tunnel, ws_connects, log, legs, loops,
                   received, held, delivered>>

\* A relay loop: `next().await` yielded Some(Ok(msg)), and the loop goes on
\* to `send(msg)` (proxy.rs 325-328, 343-346)
RelayReceives(d) ==
    /\ select_polls(loops, held, d)
    /\ held[d] = None
    /\ pending[d] # <<>>
    /\ received' = [received EXCEPT ![d] = Append(@, Head(pending[d]))]
    /\ held' = [held EXCEPT ![d] = Some(Head(pending[d]))]
    /\ pending' = [pending EXCEPT ![d] = Tail(@)]
    /\ UNCHANGED <<inputs, tls, handler, tunnel, ws_connects, log, legs, loops,
                   delivered>>

\* A relay loop: `send(msg).await` returned Ok, and the loop is back at
\* `next()` (proxy.rs 328, 346)
RelaySends(d) ==
    /\ select_polls(loops, held, d)
    /\ held[d] # None
    /\ delivered' = [delivered EXCEPT ![d] = relay_send(@, Unwrap(held[d]))]
    /\ held' = [held EXCEPT ![d] = None]
    /\ UNCHANGED <<inputs, tls, handler, tunnel, ws_connects, log, legs, loops,
                   pending, received>>

\* One relay loop is over (its future is ready): select! returns, the task
\* ends and drops both connections (proxy.rs 359-363, 371)
LoopOver(d) ==
    /\ loops' = select(loops, d)
    /\ tunnel' = IF \E x \in Directions : loops'[x] = "running"
                 THEN "relaying" ELSE "closed"
    /\ legs' = IF \E x \in Directions : loops'[x] = "running"
               THEN legs ELSE [l \in Legs |-> "closed"]
    /\ held' = [x \in Directions |->
                  IF loops'[x] = "running" THEN held[x] ELSE None]

\* A relay loop: `send(msg).await` returned Err; the loop logs and breaks
\* (proxy.rs 328-331, 346-349)
RelaySendFails(d) ==
    /\ loops[d] = "running"
    /\ held[d] # None
    /\ log' = Append(log, "Failed to send to " \o DestinationOf(d))
    /\ LoopOver(d)
    /\ UNCHANGED <<inputs, tls, handler, ws_connects, pending, received, delivered>>

\* A relay loop: `next().await` yielded Some(Err(e)); the loop logs and breaks
\* (proxy.rs 333-336, 351-354)
RelayReceiveFails(d) ==
    /\ loops[d] = "running"
    /\ held[d] = None
    /\ log' = Append(log, SourceOf(d) \o " WS error")
    /\ LoopOver(d)
    /\ UNCHANGED <<inputs, tls, handler, ws_connects, pending, received, delivered>>

\* A relay loop: `next().await` yielded None, the source has closed its
\* stream; the `while let` ends (proxy.rs 325, 343)
RelayStreamEnds(d) ==
    /\ loops[d] = "running"
    /\ held[d] = None
    /\ pending[d] = <<>>
    /\ LoopOver(d)
    /\ UNCHANGED <<inputs, tls, handler, ws_connects, log, pending, received,
                   delivered>>

\* The task: one of the relay loops ended and select! returned (proxy.rs 359-362)
RelayEnds ==
    \E d \in Directions :
        \/ RelayStreamEnds(d)
        \/ RelayReceiveFails(d)
        \/ RelaySendFails(d)

\* The task: one step of a relay loop that goes on
Relays == \E d \in Directions : RelayReceives(d) \/ RelaySends(d)

Next ==
    \/ ForwardRequest
    \/ UpstreamResponds
    \/ UpstreamFails
    \/ HandleWebsocketUpgrade
    \/ ClientUpgraded
    \/ ClientUpgradeFails
    \/ UpstreamConnected
    \/ UpstreamConnectFails
    \/ \E d \in Directions : PeerSends(d)
    \/ Relays
    \/ RelayEnds

Spec == Init /\ [][Next]_vars

(***************************************************************************)
(* The proxy in front of an upstream that echoes text messages, as in      *)
(* test_proxy_forwards_websocket: the requests are WebSocket handshakes,   *)
(* the client sends messages, the upstream sends back every text message   *)
(* it gets.  The task of a tunnel is polled whenever one of its loops can  *)
(* go on, and a send to a peer that takes the message completes.           *)
(***************************************************************************)
IsTextMessage(msg) == msg.type = "text"
Texts(msgs) == SelectSeq(msgs, IsTextMessage)

EchoInit ==
    /\ \E ctx \in SmallContexts :
       \E choice \in {HandshakeLines, SplitConnectionLines} :
          /\ req = InboundRequest(ctx.line, LinesOf(choice))
          /\ addr = ctx.addr
          /\ target = ctx.target
    /\ budget = MaxMessages
    /\ pc = "start"
    /\ calls = <<>>
    /\ upstream_reqs = <<>>
    /\ upstream_resp = None
    /\ resp = None
    /\ tunnel = "none"
    /\ ws_connects = <<>>
    /\ log = <<>>
    /\ legs = [l \in Legs |-> "none"]
    /\ loops = [d \in Directions |-> "none"]
    /\ pending = [d \in Directions |-> <<>>]
    /\ received = [d \in Directions |-> <<>>]
    /\ held = [d \in Directions |-> None]
    /\ delivered = [d \in Directions |-> <<>>]
    /\ tls = NoHandshake

\* The upstream of the test: `socket.send(Message::Text(text))` for the next
\* text message `socket.recv()` gave it (integration_test.rs 277-282)
UpstreamEchoes ==
    /\ tunnel = "relaying"
    /\ legs["upstream"] = "open"
    /\ Len(AllSent("upstream_to_client"))
         < Len(Texts(delivered["client_to_upstream"]))
    /\ pending' = [pending EXCEPT !["upstream_to_client"] =
                     Append(@, Texts(delivered["client_to_upstream"])
                                 [Len(AllSent("upstream_to_client")) + 1])]
    /\ UNCHANGED <<inputs, tls, handler, tunnel, ws_connects, log, legs, loops,
                   received, held, delivered>>

EchoNext ==
    \/ HandleWebsocketUpgrade
    \/ ClientUpgraded
    \/ ClientUpgradeFails
    \/ UpstreamConnected
    \/ UpstreamConnectFails
    \/ PeerSends("client_to_upstream")
    \/ UpstreamEchoes
    \/ Relays
    \/ RelayEnds

\* One step of the loop of direction d that goes on
LoopStep(d) == RelayReceives(d) \/ RelaySends(d)

EchoSpec ==
    /\ EchoInit
    /\ [][EchoNext]_vars
    /\ WF_vars(LoopStep("client_to_upstream"))
    /\ WF_vars(LoopStep("upstream_to_client"))
    /\ WF_vars(UpstreamEchoes)

(***************************************************************************)
(* The proxy in front of a client that may close its connection once it    *)
(* has the 101.  The spawned task is polled whenever it can go on without  *)
(* the upstream: hyper::upgrade::on resolves, a loop takes a message that  *)
(* has arrived, a send completes, and `client_read.next()` ends or fails   *)
(* once the client is gone.  Nothing is assumed of the upstream: it need   *)
(* not answer the connection attempt, send, or close.                      *)
(***************************************************************************)
\* The client closes its connection (the task is not told: it is detached
\* by tokio::spawn and only finds out when it reads from or writes to the
\* upgraded connection)
ClientCloses ==
    /\ pc = "done"
    /\ tunnel \in {"awaiting_upgrade", "connecting", "relaying"}
    /\ legs["client"] \in {"none", "open"}
    /\ legs' = [legs EXCEPT !["client"] = "peer_closed"]
    /\ UNCHANGED <<inputs, tls, handler, tunnel, ws_connects, log, loops, traffic>>

ClientClosed == legs["client"] = "peer_closed"

\* The client-to-upstream loop finds the client gone: `client_read.next()`
\* yields None or Some(Err(e)) (proxy.rs 325, 333-336)
ClientFoundClosed ==
    /\ ClientClosed
    /\ \/ RelayStreamEnds("client_to_upstream")
       \/ RelayReceiveFails("client_to_upstream")

\* hyper::upgrade::on(&mut req) resolves, one way or the other (proxy.rs 293)
UpgradeResolves == ClientUpgradeFails \/ ClientUpgraded

CancelNext ==
    \/ HandleWebsocketUpgrade
    \/ ClientUpgraded
    \/ ClientUpgradeFails
    \/ UpstreamConnected
    \/ UpstreamConnectFails
    \/ ClientCloses
    \/ \E d \in Directions : PeerSends(d)
    \/ Relays
    \/ RelayEnds

CancelSpec ==
    /\ EchoInit
    /\ [][CancelNext]_vars
    /\ WF_vars(UpgradeResolves)
    /\ WF_vars(LoopStep("client_to_upstream"))
    /\ WF_vars(LoopStep("upstream_to_client"))
    /\ WF_vars(ClientFoundClosed)

(***************************************************************************)
(* The TLS handshake of one connection to an upstream, as far as rustls    *)
(* asks the verifier: the schemes for the ClientHello, then the            *)
(* certificate chain of the upstream, then the signature of the handshake. *)
(* The upstream presents what it likes.                                    *)
(***************************************************************************)
Certificates ==
    { [subject |-> "api.example.com", issuer |-> "Public CA", not_after |-> "2030"],
      [subject |-> "api.example.com", issuer |-> "api.example.com", not_after |-> "2030"],
      [subject |-> "api.example.com", issuer |-> "Public CA", not_after |-> "2020"],
      [subject |-> "other.example", issuer |-> "Unknown CA", not_after |-> "2020"],
      [subject |-> "", issuer |-> "", not_after |-> ""] }
ServerNames == {"api.example.com", "backend"}
OcspResponses == {"", "revoked"}
Times == {"2026"}
TlsVersions == {"TLSv1.2", "TLSv1.3"}
\* The schemes a peer may sign with: those of rustls, advertised or not
SignatureSchemes ==
    {"RSA_PKCS1_SHA1", "ECDSA_SHA1_Legacy", "RSA_PKCS1_SHA256",
     "ECDSA_NISTP256_SHA256", "RSA_PKCS1_SHA384", "ECDSA_NISTP384_SHA384",
     "RSA_PKCS1_SHA512", "ECDSA_NISTP521_SHA512", "RSA_PSS_SHA256",
     "RSA_PSS_SHA384", "RSA_PSS_SHA512", "ED25519", "ED448"}
Signatures == {"signed by the key of the certificate", "forged"}

\* No request, no tunnel: the proxy as it is while a handshake goes on
Idle ==
    /\ pc = "start"
    /\ calls = <<>>
    /\ upstream_reqs = <<>>
    /\ upstream_resp = None
    /\ resp = None
    /\ tunnel = "none"
    /\ ws_connects = <<>>
    /\ log = <<>>
    /\ legs = [l \in Legs |-> "none"]
    /\ loops = [d \in Directions |-> "none"]
    /\ pending = [d \in Directions |-> <<>>]
    /\ received = [d \in Directions |-> <<>>]
    /\ held = [d \in Directions |-> None]
    /\ delivered = [d \in Directions |-> <<>>]

TlsInit ==
    /\ \E ctx \in SmallContexts :
          /\ req = InboundRequest(ctx.line, <<>>)
          /\ addr = ctx.addr
          /\ target = ctx.target
          /\ ParseUri(ctx.target).ok
    /\ budget = MaxMessages
    /\ Idle
    /\ \E end_entity \in Certificates, server_name \in ServerNames,
          ocsp \in OcspResponses, now \in Times, version \in TlsVersions,
          scheme \in SignatureSchemes, sig \in Signatures :
       \E intermediates \in {<<>>, <<end_entity>>} :
          tls = [phase |-> "hello",
                 end_entity |-> end_entity,
                 intermediates |-> intermediates,
                 server_name |-> server_name,
                 ocsp_response |-> ocsp,
                 now |-> now,
                 version |-> version,
                 message |-> "transcript",
                 dss |-> [scheme |-> scheme, sig |-> sig],
                 schemes |-> None,
                 cert_verdict |-> None,
                 signature_verdict |-> None]

proxy == <<req, addr, target, budget, handler, tunnel, ws_connects, log,
           legs, loops, traffic>>

\* rustls asks for the schemes to offer in the ClientHello (tls.rs 44-57)
SupportedVerifySchemes ==
    /\ tls.phase = "hello"
    /\ tls' = [tls EXCEPT !.schemes = Some(supported_verify_schemes),
                          !.phase = "certificate"]
    /\ UNCHANGED proxy

\* rustls hands over the certificate chain of the upstream (tls.rs 15-24)
VerifyServerCert ==
    /\ tls.phase = "certificate"
    /\ LET verdict == verify_server_cert(tls.end_entity, tls.intermediates,
                                         tls.server_name, tls.ocsp_response,
                                         tls.now)
       IN  tls' = [tls EXCEPT !.cert_verdict = Some(verdict),
                              !.phase = IF verdict.ok THEN "signature"
                                        ELSE "failed"]
    /\ UNCHANGED proxy

\* rustls hands over the signature of a TLS 1.2 handshake (tls.rs 26-33)
VerifyTls12Signature ==
    /\ tls.phase = "signature"
    /\ tls.version = "TLSv1.2"
    /\ LET verdict == verify_tls12_signature(tls.message, tls.end_entity, tls.dss)
       IN  tls' = [tls EXCEPT !.signature_verdict = Some(verdict),
                              !.phase = IF verdict.ok THEN "established"
                                        ELSE "failed"]
    /\ UNCHANGED proxy

\* rustls hands over the signature of a TLS 1.3 handshake (tls.rs 35-42)
VerifyTls13Signature ==
    /\ tls.phase = "signature"
    /\ tls.version = "TLSv1.3"
    /\ LET verdict == verify_tls13_signature(tls.message, tls.end_entity, tls.dss)
       IN  tls' = [tls EXCEPT !.signature_verdict = Some(verdict),
                              !.phase = IF verdict.ok THEN "established"
                                        ELSE "failed"]
    /\ UNCHANGED proxy

TlsNext ==
    \/ SupportedVerifySchemes
    \/ VerifyServerCert
    \/ VerifyTls12Signature
    \/ VerifyTls13Signature

TlsSpec == TlsInit /\ [][TlsNext]_vars

(***************************************************************************)
(* Vocabulary of the properties below.                                     *)
(***************************************************************************)
Forwarded == calls = <<"forward_request">>
Tunnelled == calls = <<"handle_websocket_upgrade">>

\* The request handed to the HTTP client (when one was)
Outbound == upstream_reqs[1]

\* The response returned to the client (when one was)
Returned == resp[1]

\* The peer address as text, written out for the peers of the model
PeerText ==
    IF addr.ip = <<192, 168, 1, 100>> THEN "192.168.1.100"
    ELSE IF addr.ip = <<10, 0, 0, 50>> THEN "10.0.0.50"
    ELSE "?"

\* v holds `word` (given in lower case) somewhere, letter case ignored
HoldsIgnoringCase(v, word) ==
    \E k \in 0..(Len(v) - Len(word)) :
        \A j \in 1..Len(word) : LowerChar(Ch(v, k + j)) = Ch(word, j)

\* Every byte of v is visible ASCII (or a tab)
IsText(v) == \A i \in 1..Len(v) : Ch(v, i) \in VisibleAscii

\* Some value of header `name` of the inbound request holds `word`
SomeValueHolds(name, word) ==
    \E i \in 1..Len(get_all(req.headers, name)) :
        HoldsIgnoringCase(get_all(req.headers, name)[i], word)

\* Some value of header `name` that is text holds `word`
SomeTextValueHolds(name, word) ==
    \E i \in 1..Len(get_all(req.headers, name)) :
        /\ IsText(get_all(req.headers, name)[i])
        /\ HoldsIgnoringCase(get_all(req.headers, name)[i], word)

\* A response is the 502 the proxy makes up
IsSynthesized502(r) ==
    /\ r.status = 502
    /\ get_all(r.headers, "content-type") = <<"text/plain; charset=utf-8">>
    /\ starts_with(r.body, "502 Bad Gateway - ")

(***************************************************************************)
(* C1 (as claimed).  Once proxy_handler has dispatched a request, it went  *)
(* to the WebSocket path exactly when some Connection value holds          *)
(* "upgrade" and some Upgrade value holds "websocket" (any letter case),   *)
(* and to forward_request otherwise; it went to exactly one of the two.    *)
(* Fails: a value with a byte above 0x7F is not looked at.                 *)
(***************************************************************************)
C1_AsClaimed ==
    pc # "start" =>
        /\ Forwarded \/ Tunnelled
        /\ Tunnelled <=> /\ SomeValueHolds("connection", "upgrade")
                         /\ SomeValueHolds("upgrade", "websocket")

(***************************************************************************)
(* C1 (amended).  Once proxy_handler has dispatched a request, it went to  *)
(* the WebSocket path exactly when some Connection value that is visible   *)
(* ASCII text holds "upgrade" and some Upgrade value that is visible ASCII *)
(* text holds "websocket" (any letter case); every other request (either   *)
(* header missing, Upgrade: h2c) went to forward_request; each request     *)
(* went to exactly one of the two paths, once.                             *)
(***************************************************************************)
C1_UpgradeDispatch ==
    /\ pc = "start" => calls = <<>>
    /\ pc # "start" =>
        /\ Forwarded \/ Tunnelled
        /\ Tunnelled <=> /\ SomeTextValueHolds("connection", "upgrade")
                         /\ SomeTextValueHolds("upgrade", "websocket")

\* C1 witness: a request with two Connection lines, only one of which asks
\* for the upgrade, was sent to the WebSocket path
C1_Witness ==
    /\ Tunnelled
    /\ Len(get_all(req.headers, "connection")) = 2
    /\ ~HoldsIgnoringCase(get_all(req.headers, "connection")[1], "upgrade")
    /\ get_all(req.headers, "upgrade") = <<"WebSocket">>

(***************************************************************************)
(* C2 (as claimed).  A non-upgrade request that has been answered caused   *)
(* exactly one request through the HTTP client.  Fails: with a target that *)
(* does not parse, none is issued.                                         *)
(***************************************************************************)
C2_AsClaimed ==
    /\ Len(upstream_reqs) <= 1
    /\ (Forwarded /\ pc = "done") => Len(upstream_reqs) = 1

(***************************************************************************)
(* C2 (amended).  A non-upgrade request never causes two requests through  *)
(* the HTTP client (no retry, no redirect followed).  It causes exactly    *)
(* one, issued when forward_request reaches the client call, unless the    *)
(* upstream URI or the upstream request cannot be built (the target is not *)
(* a usable URI): then none is issued and the answer is the 502.           *)
(***************************************************************************)
C2_OneUpstreamRequest ==
    /\ Len(upstream_reqs) <= 1
    /\ Forwarded =>
         IF build_upstream_uri(req.uri, target).ok
         THEN Len(upstream_reqs) = 1
         ELSE /\ Len(upstream_reqs) = 0
              /\ pc = "done"
              /\ upstream_resp = None
              /\ IsSynthesized502(Returned)

\* C2 witness: a forwarded request was answered after one upstream request
C2_Witness ==
    /\ Forwarded
    /\ pc = "done"
    /\ Len(upstream_reqs) = 1
    /\ upstream_resp # None

(***************************************************************************)
(* C3.  When the client call succeeded, the response returned to the       *)
(* client has the status, the header set and the body of the upstream      *)
(* response: nothing added, removed or rewritten.                          *)
(***************************************************************************)
C3_ResponsePassthrough ==
    \A r \in UpstreamResponses :
        upstream_resp = Some(Ok(r)) =>
            /\ resp # None
            /\ Returned.status = r.status
            /\ Returned.headers = r.headers
            /\ Returned.body = r.body

\* C3 witness: an upstream 201 with its custom headers went through
C3_Witness ==
    /\ pc = "done"
    /\ upstream_resp # None
    /\ upstream_resp[1].ok
    /\ Returned.status = 201
    /\ get_all(Returned.headers, "x-custom-header") = <<"custom-value">>

(***************************************************************************)
(* C4.  When the client call failed at transport level, the response is    *)
(* the synthesized one: status 502, content-type                           *)
(* "text/plain; charset=utf-8", body starting "502 Bad Gateway - ".        *)
(***************************************************************************)
C4_BadGatewayOnTransportFailure ==
    \A e \in TransportErrors :
        upstream_resp = Some(Err(e)) =>
            /\ resp # None
            /\ Returned.status = 502
            /\ get_all(Returned.headers, "content-type")
                 = <<"text/plain; charset=utf-8">>
            /\ starts_with(Returned.body, "502 Bad Gateway - ")

\* C4 witness: a POST with a body was forwarded and the client call failed
C4_Witness ==
    /\ pc = "done"
    /\ upstream_resp = Some(Err("client error (Connect)"))
    /\ req.method = "POST"
    /\ Returned.status = 502

(***************************************************************************)
(* C5.  proxy_handler always returns a response, and only one.  Its status *)
(* is the status of the upstream (successful forward), 101 (accepted       *)
(* upgrade) or the synthesized 502 (a target that cannot be used, a failed *)
(* client call, a missing Sec-WebSocket-Key).  Once a 101 has been         *)
(* returned the response stands: whatever fails in the tunnel task is      *)
(* logged and closes the tunnel, and is never turned into a response.      *)
(***************************************************************************)
C5_ProxyFailure ==
    \/ /\ Forwarded
       /\ \/ ~build_upstream_uri(req.uri, target).ok
          \/ /\ upstream_resp # None
             /\ ~upstream_resp[1].ok
    \/ /\ Tunnelled
       /\ \/ ~ParseUri(target).ok
          \/ get_all(req.headers, "sec-websocket-key") = <<>>

C5_Response ==
    /\ pc # "done" => resp = None /\ tunnel = "none"
    /\ pc = "done" =>
        /\ resp # None
        /\ IF C5_ProxyFailure
           THEN IsSynthesized502(Returned) /\ tunnel = "none"
           ELSE IF Forwarded
           THEN Returned.status = upstream_resp[1].val.status /\ tunnel = "none"
           ELSE Returned.status = 101 /\ tunnel # "none"

C5_Committed ==
    /\ resp # None => resp' = resp
    /\ (tunnel # "none" /\ log' # log) => tunnel' = "closed"

C5_WellFormedResponse == []C5_Response /\ [][C5_Committed]_vars

\* C5 witness: the upstream WebSocket connection failed after the 101; the
\* response is still the 101 and the tunnel is closed
C5_Witness ==
    /\ resp # None
    /\ Returned.status = 101
    /\ tunnel = "closed"
    /\ log = <<"Failed to connect to upstream WebSocket">>

(***************************************************************************)
(* C6.  For a target "<scheme>://<authority>" with or without a path of    *)
(* its own, the URI of the upstream request reads                          *)
(* <scheme>://<authority><inbound path and query>, the inbound path and    *)
(* query taken as they stand ("/" when the inbound URI has none): the path *)
(* of the target is dropped and nothing is decoded or normalised.          *)
(***************************************************************************)
C6_InboundPathAndQuery ==
    IF req.uri.path_and_query = "" THEN "/" ELSE req.uri.path_and_query

C6_UpstreamUri ==
    Forwarded =>
        /\ \A scheme \in {"http", "https"} :
           \A auth \in {"backend:8080", "api.example.com"} :
           \A path \in {"", "/base?x=1"} :
              target = scheme \o "://" \o auth \o path =>
                /\ upstream_reqs # <<>>
                /\ uri_to_string(Outbound.uri)
                     = scheme \o "://" \o auth \o C6_InboundPathAndQuery
        /\ (/\ target = "http://backend:8080"
            /\ req.uri.path_and_query = "/search?q=hello&page=2")
              => uri_to_string(Outbound.uri)
                   = "http://backend:8080/search?q=hello&page=2"

\* C6 witness: a target with a path of its own and an inbound path with
\* percent-escapes and dot segments
C6_Witness ==
    /\ Forwarded
    /\ target = "http://backend:8080/base?x=1"
    /\ req.uri.path_and_query = "/api/a%20b/../data/?next=%2Fhome&x"
    /\ upstream_reqs # <<>>
    /\ uri_to_string(Outbound.uri)
         = "http://backend:8080/api/a%20b/../data/?next=%2Fhome&x"

(***************************************************************************)
(* C7 (as claimed).  In the upstream request X-Forwarded-For is the peer   *)
(* IP when the header was absent, "<existing>, <peer IP>" when it was      *)
(* present and not empty, and a value without leading comma when it was    *)
(* present and empty; the peer IP is always its last element.  Fails: an   *)
(* existing value of whitespace only, or with a byte above 0x7F, is        *)
(* dropped instead of being appended to.                                   *)
(***************************************************************************)
C7_EndsWithPeer(v) ==
    \/ v = PeerText
    \/ /\ Len(v) > Len(PeerText) + 2
       /\ SubSeq(v, Len(v) - Len(PeerText) - 1, Len(v)) = ", " \o PeerText

C7_AsClaimed ==
    upstream_reqs # <<>> =>
        LET existing == get_all(req.headers, "x-forwarded-for")
            out == get_all(Outbound.headers, "x-forwarded-for")
        IN  /\ Len(out) = 1
            /\ C7_EndsWithPeer(out[1])
            /\ existing = <<>> => out[1] = PeerText
            /\ (existing # <<>> /\ existing[1] # "")
                  => out[1] = existing[1] \o ", " \o PeerText
            /\ (existing # <<>> /\ existing[1] = "")
                  => ~starts_with(out[1], ",")

(***************************************************************************)
(* C7 (amended).  In the upstream request X-Forwarded-For has one line.    *)
(* It is "<existing>, <peer IP>" when the first inbound X-Forwarded-For    *)
(* value is visible ASCII text with a character that is not whitespace,    *)
(* and the peer IP alone when the header was absent, empty, whitespace     *)
(* only, or not readable as text (a byte above 0x7F).  The peer IP is      *)
(* always the last element and there is never a leading comma.             *)
(***************************************************************************)
C7_Usable(v) ==
    /\ IsText(v)
    /\ \E i \in 1..Len(v) : Ch(v, i) \notin {" ", "\t"}

C7_ForwardedFor ==
    upstream_reqs # <<>> =>
        LET existing == get_all(req.headers, "x-forwarded-for")
            out == get_all(Outbound.headers, "x-forwarded-for")
        IN  /\ Len(out) = 1
            /\ C7_EndsWithPeer(out[1])
            /\ ~starts_with(out[1], ",")
            /\ out[1] = IF existing # <<>> /\ C7_Usable(existing[1])
                        THEN existing[1] \o ", " \o PeerText
                        ELSE PeerText

\* C7 witness: 10.0.0.1 came in, the peer was appended to it
C7_Witness ==
    /\ upstream_reqs # <<>>
    /\ get_all(req.headers, "x-forwarded-for") = <<"10.0.0.1">>
    /\ addr.ip = <<192, 168, 1, 100>>
    /\ get_all(Outbound.headers, "x-forwarded-for") = <<"10.0.0.1, 192.168.1.100">>

(***************************************************************************)
(* C8.  X-Real-IP of the upstream request is one line, the IP of the peer, *)
(* whatever X-Real-IP lines the client sent: it is a function of the peer  *)
(* address alone.                                                          *)
(***************************************************************************)
C8_RealIpIsPeer ==
    upstream_reqs # <<>> =>
        get_all(Outbound.headers, "x-real-ip") = <<PeerText>>

\* C8 witness: the client sent two X-Real-IP lines of its own
C8_Witness ==
    /\ upstream_reqs # <<>>
    /\ get_all(req.headers, "x-real-ip") = <<"6.6.6.6", "7.7.7.7">>
    /\ get_all(Outbound.headers, "x-real-ip") = <<"10.0.0.50">>

(***************************************************************************)
(* C9.  X-Forwarded-Proto and X-Forwarded-Port of the upstream request are *)
(* the lines the inbound request carried when it carried any, and "https"  *)
(* and "443" when it carried none.                                         *)
(***************************************************************************)
C9_KeptOrDefault(name, default) ==
    get_all(Outbound.headers, name)
        = IF get_all(req.headers, name) # <<>>
          THEN get_all(req.headers, name)
          ELSE <<default>>

C9_ProtoAndPortKept ==
    upstream_reqs # <<>> =>
        /\ C9_KeptOrDefault("x-forwarded-proto", "https")
        /\ C9_KeptOrDefault("x-forwarded-port", "443")

\* C9 witness: X-Forwarded-Proto: http came in and stayed, the port was added
C9_Witness ==
    /\ upstream_reqs # <<>>
    /\ get_all(req.headers, "x-forwarded-proto") = <<"http">>
    /\ get_all(req.headers, "x-forwarded-port") = <<>>
    /\ get_all(Outbound.headers, "x-forwarded-proto") = <<"http">>
    /\ get_all(Outbound.headers, "x-forwarded-port") = <<"443">>

(***************************************************************************)
(* C10 (as claimed).  X-Forwarded-Host of the upstream request is the      *)
(* inbound X-Forwarded-Host when there was one, else the inbound Host      *)
(* value, and is absent when there was neither.  Fails: without a Host     *)
(* header the authority of the inbound URI is used.                        *)
(***************************************************************************)
C10_AsClaimed ==
    upstream_reqs # <<>> =>
        get_all(Outbound.headers, "x-forwarded-host")
            = IF get_all(req.headers, "x-forwarded-host") # <<>>
              THEN get_all(req.headers, "x-forwarded-host")
              ELSE IF get_all(req.headers, "host") # <<>>
              THEN <<get_all(req.headers, "host")[1]>>
              ELSE <<>>

(***************************************************************************)
(* C10 (amended).  X-Forwarded-Host of the upstream request is the inbound *)
(* X-Forwarded-Host when there was one; else the inbound Host value as it  *)
(* came in; else, for a request without Host header, the authority of the  *)
(* inbound request URI when it has one; else the header is absent.  It is  *)
(* never the authority of the upstream target.                             *)
(***************************************************************************)
C10_ForwardedHost ==
    upstream_reqs # <<>> =>
        get_all(Outbound.headers, "x-forwarded-host")
            = IF get_all(req.headers, "x-forwarded-host") # <<>>
              THEN get_all(req.headers, "x-forwarded-host")
              ELSE IF get_all(req.headers, "host") # <<>>
              THEN <<get_all(req.headers, "host")[1]>>
              ELSE IF req.uri.authority # None
              THEN <<req.uri.authority[1]>>
              ELSE <<>>

\* C10 witness: Host: example.com came in without X-Forwarded-Host, and the
\* upstream URI has another authority
C10_Witness ==
    /\ upstream_reqs # <<>>
    /\ get_all(req.headers, "host") = <<"example.com">>
    /\ get_all(req.headers, "x-forwarded-host") = <<>>
    /\ Outbound.uri.authority = Some("backend:8080")
    /\ get_all(Outbound.headers, "x-forwarded-host") = <<"example.com">>

(***************************************************************************)
(* C11.  The request handed to the HTTP client for a non-upgrade request   *)
(* has no line named Connection, Keep-Alive, Proxy-Authenticate,           *)
(* Proxy-Authorization, TE, Trailers, Transfer-Encoding or Upgrade         *)
(* (names without regard to letter case), and remove_hop_by_hop_headers    *)
(* leaves the lines of every other name as they were, in value and in      *)
(* number: this for the header set it is applied to in                     *)
(* build_upstream_request and for the inbound header set itself.           *)
(***************************************************************************)
C11_Names ==
    {"connection", "keep-alive", "proxy-authenticate", "proxy-authorization",
     "te", "trailers", "transfer-encoding", "upgrade"}

\* `after` is `before` without the names of C11_Names and nothing else changed
C11_OnlyNamesGone(before, after) ==
    /\ DOMAIN after = DOMAIN before \ C11_Names
    /\ \A n \in DOMAIN after : after[n] = before[n]

C11_HopByHopStripped ==
    /\ (Forwarded /\ upstream_reqs # <<>>) =>
          /\ DOMAIN Outbound.headers \cap C11_Names = {}
          /\ LET fwd == add_forwarding_headers(req.headers, addr,
                                               original_host_of(req))
             IN  /\ fwd.ok
                 /\ C11_OnlyNamesGone(fwd.val,
                                      remove_hop_by_hop_headers(fwd.val))
                 /\ \A n \in DOMAIN fwd.val \ (C11_Names \cup {"cookie"}) :
                        get_all(Outbound.headers, n) = fwd.val[n]
    /\ C11_OnlyNamesGone(req.headers, remove_hop_by_hop_headers(req.headers))

\* C11 witness: a request with a line of each of the eight names, a
\* Content-Type line and two X-Custom lines was forwarded, and the outbound
\* request has the Content-Type line and both X-Custom lines
C11_Witness ==
    /\ Forwarded
    /\ upstream_reqs # <<>>
    /\ C11_Names \subseteq DOMAIN req.headers
    /\ get_all(Outbound.headers, "content-type") = <<"text/plain">>
    /\ get_all(Outbound.headers, "x-custom") = <<"value", "other">>

(***************************************************************************)
(* Cookie lines of the inbound request, and of the outbound one.           *)
(***************************************************************************)
InboundCookies == get_all(req.headers, "cookie")
OutboundCookies == get_all(Outbound.headers, "cookie")

RECURSIVE C12_Kept(_)
\* The values normalize_cookie_headers merges: those that are text and not
\* blank, without the blanks around them, in their order
C12_Kept(vals) ==
    IF Len(vals) = 0 THEN <<>>
    ELSE (IF IsText(vals[1]) /\ trim(vals[1]) # ""
          THEN <<trim(vals[1])>> ELSE <<>>) \o C12_Kept(Tail(vals))

(***************************************************************************)
(* C12 (as claimed).  A forwarded request that came with N >= 2 Cookie     *)
(* lines v1..vN goes out with exactly one Cookie line, "v1; v2; ...; vN".  *)
(* Fails: an empty or blank value is left out (and with at most one value  *)
(* left the lines stay as they are), a value that is not text is dropped,  *)
(* and the blanks around a value are cut.                                  *)
(***************************************************************************)
C12_AsClaimed ==
    (Forwarded /\ upstream_reqs # <<>> /\ Len(InboundCookies) >= 2) =>
        OutboundCookies = <<join(InboundCookies, "; ")>>

(***************************************************************************)
(* C12 (the code).  For a request with N >= 2 Cookie lines: when at least  *)
(* two of the values are text with something other than blanks, the        *)
(* outbound request has exactly one Cookie line, made of these values in   *)
(* their order, each without the blanks around it, joined with "; " (no    *)
(* "," is put in); otherwise the Cookie lines go out as they came.  When   *)
(* every value is text, not blank and has no blanks around it, that line   *)
(* is "v1; v2; ...; vN".  normalize_cookie_headers changes no line of      *)
(* another name.                                                           *)
(***************************************************************************)
C12_CookiesMerged ==
    LET kept == C12_Kept(InboundCookies)
        res == normalize_cookie_headers(req.headers)
    IN  Len(InboundCookies) >= 2 =>
          /\ res.ok
          /\ \A n \in DOMAIN req.headers \ {"cookie"} :
                get_all(res.val, n) = req.headers[n]
          /\ DOMAIN res.val = DOMAIN req.headers
          /\ (Forwarded /\ upstream_reqs # <<>>) =>
                /\ OutboundCookies = get_all(res.val, "cookie")
                /\ Len(kept) >= 2 => OutboundCookies = <<join(kept, "; ")>>
                /\ Len(kept) <= 1 => OutboundCookies = InboundCookies
                /\ kept = InboundCookies =>
                      OutboundCookies = <<join(InboundCookies, "; ")>>

\* Three Cookie lines, one with blanks around its value, went out as one line
C12_Merged ==
    /\ Forwarded
    /\ upstream_reqs # <<>>
    /\ InboundCookies = <<"session=abc", " lang=en ", "token=xyz">>
    /\ OutboundCookies = <<"session=abc; lang=en; token=xyz">>

\* C12 witness: a request with two Cookie lines, one of them empty, went out
\* with both lines
C12_Witness ==
    /\ Forwarded
    /\ upstream_reqs # <<>>
    /\ InboundCookies = <<"session=abc", "">>
    /\ OutboundCookies = <<"session=abc", "">>

(***************************************************************************)
(* C13.  With no Cookie line or one, normalize_cookie_headers returns Ok   *)
(* and leaves the whole header set as it was: no Cookie line is made, the  *)
(* single value is not rewritten.  This for the inbound header set, for    *)
(* the header set it is applied to in build_upstream_request, and so for   *)
(* the Cookie lines of the outbound request.                               *)
(***************************************************************************)
C13_CookiePassthrough ==
    Len(InboundCookies) <= 1 =>
        /\ normalize_cookie_headers(req.headers) = Ok(req.headers)
        /\ (Forwarded /\ upstream_reqs # <<>>) =>
              /\ OutboundCookies = InboundCookies
              /\ LET fwd == add_forwarding_headers(req.headers, addr,
                                                   original_host_of(req))
                     stripped == remove_hop_by_hop_headers(fwd.val)
                 IN  /\ normalize_cookie_headers(stripped) = Ok(stripped)
                     /\ Outbound.headers = stripped

\* C13 witness: a request with the single Cookie line " lang=en " went out
\* with that value, blanks included
C13_Witness ==
    /\ Forwarded
    /\ upstream_reqs # <<>>
    /\ InboundCookies = <<" lang=en ">>
    /\ OutboundCookies = <<" lang=en ">>

\* A request without a Cookie line went out without one
C13_WitnessNoCookie ==
    /\ Forwarded
    /\ upstream_reqs # <<>>
    /\ InboundCookies = <<>>
    /\ ~contains_key(Outbound.headers, "cookie")

(***************************************************************************)
(* Vocabulary of the WebSocket handshake.                                  *)
(***************************************************************************)
HasKey == contains_key(req.headers, "sec-websocket-key")
NoTunnelEver == tunnel = "none" /\ ws_connects = <<>>

\* The response is 101 with the three handshake headers, the accept key
\* being the one derived from the (first) Sec-WebSocket-Key value
Is101ForKey(r) ==
    /\ r.status = 101
    /\ HasKey
    /\ DOMAIN r.headers = {"connection", "upgrade", "sec-websocket-accept"}
    /\ r.headers["connection"] = <<"Upgrade">>
    /\ r.headers["upgrade"] = <<"websocket">>
    /\ r.headers["sec-websocket-accept"] =
          <<derive_accept_key(req.headers["sec-websocket-key"][1])>>

(***************************************************************************)
(* C14 (as claimed).  An upgrade request is answered with 101 (with        *)
(* Connection: Upgrade, Upgrade: websocket and the Sec-WebSocket-Accept    *)
(* derived from its key) only if it has a Sec-WebSocket-Key line; without  *)
(* one the response is the 502 "Missing Sec-WebSocket-Key", no tunnel task *)
(* is made and no upstream connection is attempted.  Fails: the target is  *)
(* parsed before the key is looked for, and with a target that does not    *)
(* parse the 502 says "Invalid target URI" instead.                        *)
(***************************************************************************)
C14_AsClaimed ==
    (Tunnelled /\ resp # None) =>
        /\ Returned.status = 101 => Is101ForKey(Returned)
        /\ ~HasKey =>
              /\ IsSynthesized502(Returned)
              /\ Returned.body = "502 Bad Gateway - Missing Sec-WebSocket-Key"
              /\ NoTunnelEver

(***************************************************************************)
(* C14 (amended).  An upgrade request is answered with 101 (with           *)
(* Connection: Upgrade, Upgrade: websocket and the Sec-WebSocket-Accept    *)
(* derived from its key) only if it has a Sec-WebSocket-Key line and the   *)
(* target parses as a URI.  Without a key the response is a synthesized    *)
(* 502: "Missing Sec-WebSocket-Key" when the target parses, and "Invalid   *)
(* target URI: ..." when it does not (the target is looked at first); in   *)
(* both cases no tunnel task is made and no upstream connection is ever    *)
(* attempted.  Nothing but 101 and this 502 is returned.                   *)
(***************************************************************************)
C14_KeyRequired ==
    (Tunnelled /\ resp # None) =>
        /\ Returned.status = 101 => Is101ForKey(Returned) /\ ParseUri(target).ok
        /\ Returned.status # 101 => IsSynthesized502(Returned) /\ NoTunnelEver
        /\ ~HasKey =>
              /\ IsSynthesized502(Returned)
              /\ NoTunnelEver
              /\ IF ParseUri(target).ok
                 THEN Returned.body = "502 Bad Gateway - Missing Sec-WebSocket-Key"
                 ELSE starts_with(Returned.body,
                                  "502 Bad Gateway - Invalid target URI: ")

\* C14 witness: an upgrade request without a key, on a listener whose target
\* parses, was answered with the 502 "Missing Sec-WebSocket-Key"
C14_Witness ==
    /\ Tunnelled
    /\ resp # None
    /\ ~HasKey
    /\ ParseUri(target).ok
    /\ Returned.body = "502 Bad Gateway - Missing Sec-WebSocket-Key"
    /\ NoTunnelEver

(***************************************************************************)
(* Vocabulary of the tunnel.                                               *)
(***************************************************************************)
c2u == "client_to_upstream"
u2c == "upstream_to_client"

Relaying == tunnel = "relaying"
TunnelOver == tunnel = "closed"
SomeLoopOver == \E d \in Directions : loops[d] \in {"ended", "dropped"}

\* s is the beginning of t
IsPrefix(s, t) == Len(s) <= Len(t) /\ SubSeq(t, 1, Len(s)) = s

(***************************************************************************)
(* C15.  While the tunnel relays, both loops run and both legs are open.   *)
(* As soon as either loop is over (its source closed, a receive error, a   *)
(* send error), the tunnel is over: in that same step the other loop is    *)
(* stopped, both legs are closed and no loop holds a message; and from     *)
(* then on nothing is received or delivered in either direction.  No       *)
(* state has one loop over and the other one running.                      *)
(***************************************************************************)
C15_State ==
    /\ Relaying =>
          /\ \A d \in Directions : loops[d] = "running"
          /\ \A l \in Legs : legs[l] = "open"
    /\ SomeLoopOver =>
          /\ TunnelOver
          /\ \A d \in Directions : loops[d] # "running" /\ held[d] = None
          /\ \E d \in Directions : loops[d] = "ended"
          /\ \A l \in Legs : legs[l] = "closed"

C15_Step ==
    /\ (Relaying /\ SomeLoopOver') => TunnelOver'
    /\ (TunnelOver \/ SomeLoopOver) =>
          /\ TunnelOver'
          /\ received' = received
          /\ delivered' = delivered
          /\ loops' = loops
          /\ legs' = legs

C15_TunnelEndsAsOne == []C15_State /\ [][C15_Step]_vars

\* C15 witness: the client-to-upstream loop ended on a closed client stream
\* while the upstream-to-client loop was sending a message; the tunnel is over
C15_Witness ==
    /\ TunnelOver
    /\ loops = [d \in Directions |->
                  IF d = c2u THEN "ended" ELSE "dropped"]
    /\ log = <<>>
    /\ Len(received[u2c]) = Len(delivered[u2c]) + 1
    /\ \A l \in Legs : legs[l] = "closed"

\* The message a loop is sending, as a sequence of none or one
Held(d) == IF held[d] = None THEN <<>> ELSE <<Unwrap(held[d])>>

(***************************************************************************)
(* C16 (as claimed).  In each direction every message received from the    *)
(* source leg is delivered to the other leg exactly once, as it was        *)
(* received: while the loop runs, the messages received are those          *)
(* delivered and the one being sent; when the tunnel is over, the          *)
(* messages delivered by a loop that ended on a closed source, or was      *)
(* stopped because the other loop ended, are exactly those it received,    *)
(* the one it was sending at that moment included.  Fails: that message    *)
(* is dropped with the loop.                                               *)
(***************************************************************************)
C16_AsClaimed ==
    \A d \in Directions :
        /\ loops[d] = "running" => received[d] = delivered[d] \o Held(d)
        /\ (loops[d] = "ended" /\ log = <<>>) => delivered[d] = received[d]
        /\ loops[d] = "dropped" => delivered[d] = received[d]

(***************************************************************************)
(* C16 (amended).  In each direction the messages delivered are messages   *)
(* received, each one once, as one message of the same type and content    *)
(* and in the same order: while the loop runs the messages received are    *)
(* those delivered and the one being sent, and when the tunnel is over     *)
(* they are those delivered and at most one more, the message the loop was *)
(* sending when the tunnel ended (the other loop ended, or the send        *)
(* failed), which is dropped.                                              *)
(***************************************************************************)
C16_OnceExceptInFlight ==
    \A d \in Directions :
        /\ loops[d] = "running" => received[d] = delivered[d] \o Held(d)
        /\ TunnelOver =>
              \/ delivered[d] = received[d]
              \/ /\ Len(received[d]) = Len(delivered[d]) + 1
                 /\ IsPrefix(delivered[d], received[d])
        /\ \A k \in 1..Len(delivered[d]) :
              /\ k <= Len(received[d])
              /\ delivered[d][k].type = received[d][k].type
              /\ delivered[d][k].data = received[d][k].data

\* C16 witness: a text message of the client reached the upstream, and a
\* binary message of the upstream was received and never delivered: the
\* tunnel ended while it was being sent
C16_Witness ==
    /\ TunnelOver
    /\ delivered[c2u] = <<[type |-> "text", data |-> "Hello WebSocket"]>>
    /\ received[u2c] = <<[type |-> "binary", data |-> "Hello WebSocket"]>>
    /\ delivered[u2c] = <<>>

(***************************************************************************)
(* C17.  In each direction the messages delivered to the destination are   *)
(* at every moment a beginning of the messages received from the source,   *)
(* at most one message behind; a loop receives its next message only when  *)
(* it holds none, all it received before having been delivered or dropped  *)
(* with a failed send, and a step delivers at most one message, the one    *)
(* held, after those delivered before.                                     *)
(***************************************************************************)
C17_State ==
    \A d \in Directions :
        /\ IsPrefix(delivered[d], received[d])
        /\ Len(received[d]) <= Len(delivered[d]) + 1
        /\ held[d] # None => received[d] = Append(delivered[d], Unwrap(held[d]))

C17_Step ==
    \A d \in Directions :
        /\ received'[d] # received[d] =>
              /\ held[d] = None
              /\ delivered[d] = received[d]
              /\ Len(received'[d]) = Len(received[d]) + 1
              /\ IsPrefix(received[d], received'[d])
              /\ received'[d] \o pending'[d] = received[d] \o pending[d]
        /\ delivered'[d] # delivered[d] =>
              /\ held[d] # None
              /\ delivered'[d] = Append(delivered[d], Unwrap(held[d]))

C17_InOrder == []C17_State /\ [][C17_Step]_vars

\* C17 witness: two different messages of the client were delivered to the
\* upstream, in the order they were sent
C17_Witness ==
    /\ delivered[c2u] = <<[type |-> "binary", data |-> "Hello WebSocket"],
                          [type |-> "text", data |-> "Hello WebSocket"]>>
    /\ received[c2u] = delivered[c2u]

(***************************************************************************)
(* C18.  With an echoing upstream, once the tunnel relays: the k-th text   *)
(* message the client has sent is eventually delivered to the upstream,    *)
(* and its echo is eventually delivered to the client, as a text message   *)
(* with the same content, unless the tunnel ends first (a peer closed its  *)
(* stream, or a receive or a send failed).                                 *)
(***************************************************************************)
C18_Sent(k) == Relaying /\ Len(Texts(AllSent(c2u))) >= k

C18_Echoed(k) ==
    /\ Len(Texts(AllSent(c2u))) >= k
    /\ Len(Texts(delivered[c2u])) >= k
    /\ Texts(delivered[c2u])[k] = Texts(AllSent(c2u))[k]
    /\ Len(delivered[u2c]) >= k
    /\ delivered[u2c][k] = Texts(AllSent(c2u))[k]
    /\ delivered[u2c][k].type = "text"

C18_RoundTrip ==
    \A k \in 1..MaxMessages : C18_Sent(k) ~> (TunnelOver \/ C18_Echoed(k))

\* C18 witness: the tunnel relays, and the client has got back the echo of
\* its second text message, the tunnel still relaying
C18_Witness ==
    /\ Relaying
    /\ log = <<>>
    /\ Len(delivered[u2c]) = 2
    /\ C18_Echoed(2)

(***************************************************************************)
(* C19.  NoCertificateVerification accepts every certificate chain, every  *)
(* server name and every signature of a TLS 1.2 or TLS 1.3 handshake: no   *)
(* handshake fails on a verdict of it, whatever the upstream presents; and *)
(* the schemes it advertises are RSA-PKCS1 with SHA256/384/512, ECDSA      *)
(* P256/P384/P521, RSA-PSS with SHA256/384/512 and Ed25519: these ten,     *)
(* each once.                                                              *)
(***************************************************************************)
C19_SpecSchemes ==
    {"RSA_PKCS1_SHA256", "RSA_PKCS1_SHA384", "RSA_PKCS1_SHA512",
     "ECDSA_NISTP256_SHA256", "ECDSA_NISTP384_SHA384", "ECDSA_NISTP521_SHA512",
     "RSA_PSS_SHA256", "RSA_PSS_SHA384", "RSA_PSS_SHA512", "ED25519"}

C19_AcceptsEverything ==
    /\ tls.phase # "failed"
    /\ tls.phase \in {"signature", "established"} =>
          tls.cert_verdict = Some(Ok("ServerCertVerified"))
    /\ tls.phase = "established" =>
          tls.signature_verdict = Some(Ok("HandshakeSignatureValid"))
    /\ tls.phase \notin {"none", "hello"} =>
          /\ Len(Unwrap(tls.schemes)) = Cardinality(C19_SpecSchemes)
          /\ {Unwrap(tls.schemes)[i] : i \in 1..Len(Unwrap(tls.schemes))}
               = C19_SpecSchemes
    /\ Cardinality(C19_SpecSchemes) = 10

\* C19 witness: a handshake is established with an upstream that presented
\* an expired certificate of another name, issued by an unknown CA, and a
\* forged signature in a scheme that was not advertised
C19_Witness ==
    /\ tls.phase = "established"
    /\ tls.end_entity = [subject |-> "other.example", issuer |-> "Unknown CA",
                         not_after |-> "2020"]
    /\ tls.server_name = "api.example.com"
    /\ tls.dss = [scheme |-> "ED448", sig |-> "forged"]
    /\ tls.ocsp_response = "revoked"
    /\ tls.version = "TLSv1.3"

(***************************************************************************)
(* The header steps of build_upstream_request applied in a given order,    *)
(* each to the result of the one before: Ok(headers) or the first Err.     *)
(***************************************************************************)
C20_Step(name, headers) ==
    IF name = "add_forwarding_headers"
    THEN add_forwarding_headers(headers, addr, original_host_of(req))
    ELSE IF name = "remove_hop_by_hop_headers"
    THEN Ok(remove_hop_by_hop_headers(headers))
    ELSE normalize_cookie_headers(headers)

RECURSIVE C20_InOrder(_, _)
C20_InOrder(steps, headers) ==
    IF Len(steps) = 0 THEN Ok(headers)
    ELSE LET first == C20_Step(steps[1], headers)
         IN  IF ~first.ok THEN first ELSE C20_InOrder(Tail(steps), first.val)

\* The order the claim gives
C20_ClaimedOrder ==
    <<"normalize_cookie_headers", "add_forwarding_headers",
      "remove_hop_by_hop_headers">>

C21_Phase(p, t) ==
    IF p = "start" THEN "Detected"
    ELSE IF t \in {"awaiting_upgrade", "connecting"} THEN "HandshakeAccepted"
    ELSE IF t = "relaying" THEN "Relaying"
    ELSE "Closed"

C21_Rank(phase) ==
    IF phase = "Detected" THEN 0
    ELSE IF phase = "HandshakeAccepted" THEN 1
    ELSE IF phase = "Relaying" THEN 2
    ELSE 3

\* A step on which something failed: an error was logged or the handler
\* answered with a synthesized 502
C21_Failure ==
    \/ log' # log
    \/ /\ resp = None
       /\ resp' # None
       /\ IsSynthesized502(Unwrap(resp'))

C21_State ==
    is_websocket_upgrade(req) =>
        /\ Len(ws_connects) <= 1
        /\ upstream_reqs = <<>>
        /\ C21_Phase(pc, tunnel) = "HandshakeAccepted" =>
              /\ resp # None
              /\ Unwrap(resp).status = 101
        /\ C21_Phase(pc, tunnel) = "Relaying" => Len(ws_connects) = 1

C21_Step ==
    is_websocket_upgrade(req) =>
        LET before == C21_Phase(pc, tunnel)
            after == C21_Phase(pc', tunnel')
        IN  /\ C21_Rank(after) >= C21_Rank(before)
            /\ C21_Rank(after) > C21_Rank(before) =>
                  \/ after = "Closed"
                  \/ C21_Rank(after) = C21_Rank(before) + 1
            /\ C21_Failure => after = "Closed"
            /\ before = "Closed" => UNCHANGED vars
            /\ Len(ws_connects') <= 1

(***************************************************************************)
(* C21.  The handling of an upgrade request only moves forward along       *)
(* Detected, HandshakeAccepted, Relaying, Closed, one state at a time or   *)
(* straight to Closed; every failure (an error logged, a 502 returned)     *)
(* leads to Closed; nothing happens once it is Closed; and at most one     *)
(* upstream WebSocket connection is ever attempted.                        *)
(***************************************************************************)
C21_ForwardOnly == []C21_State /\ [][C21_Step]_vars

\* C21 witness: a tunnel went through all four states, was closed by an
\* error of a relay loop and made one connection attempt
C21_Witness ==
    /\ is_websocket_upgrade(req)
    /\ C21_Phase(pc, tunnel) = "Closed"
    /\ \E d \in Directions : loops[d] = "ended"
    /\ Len(ws_connects) = 1
    /\ log # <<>>

\* Whether tracing::error! has written a line
Logged(line) == \E i \in 1..Len(log) : log[i] = line

C22_State ==
    /\ ws_connects # <<>> =>
          /\ resp # None
          /\ Unwrap(resp).status = 101
          /\ legs["client"] # "none"
          /\ ~Logged("Upgrade error")
    /\ Logged("Upgrade error") => ws_connects = <<>>

C22_Step ==
    ws_connects' # ws_connects =>
        /\ pc = "done"
        /\ resp # None
        /\ Unwrap(resp).status = 101
        /\ resp' = resp
        /\ tunnel = "awaiting_upgrade"
        /\ legs["client"] = "none"
        /\ legs'["client"] = "open"

(***************************************************************************)
(* C22.  A connection to the upstream WebSocket is attempted only on the   *)
(* step on which the client-side upgrade completes, and by then the 101    *)
(* has been returned to the client; no attempt is ever made when the       *)
(* client-side upgrade has failed.                                         *)
(***************************************************************************)
C22_ConnectAfter101 == []C22_State /\ [][C22_Step]_vars

\* C22 witness: the 101 is out, the client connection is upgraded and the
\* task is connecting to the upstream
C22_Witness ==
    /\ resp # None
    /\ Unwrap(resp).status = 101
    /\ legs["client"] = "open"
    /\ tunnel = "connecting"
    /\ Len(ws_connects) = 1

\* C22 witness of the other case: the client-side upgrade failed and no
\* connection was attempted
C22_WitnessUpgradeFailed ==
    /\ Logged("Upgrade error")
    /\ tunnel = "closed"
    /\ ws_connects = <<>>

\* The upstream WebSocket connection of the tunnel has failed
C23_ConnectFailed == Logged("Failed to connect to upstream WebSocket")

(***************************************************************************)
(* C23.  Once the upstream WebSocket connection has failed (after the 101  *)
(* went to the client), the task is over and the client leg is closed, no  *)
(* relay loop exists, no message was received from or delivered to either  *)
(* peer, the upstream leg was never open, and the request went neither to  *)
(* forward_request nor to the HTTP client.                                 *)
(***************************************************************************)
C23_ConnectFailureClosesClient ==
    C23_ConnectFailed =>
        /\ Unwrap(resp).status = 101
        /\ tunnel = "closed"
        /\ legs = [l \in Legs |-> IF l = "client" THEN "closed" ELSE "none"]
        /\ loops = [d \in Directions |-> "none"]
        /\ \A d \in Directions :
              /\ delivered[d] = <<>>
              /\ received[d] = <<>>
              /\ held[d] = None
        /\ Len(ws_connects) = 1
        /\ calls = <<"handle_websocket_upgrade">>
        /\ upstream_reqs = <<>>
        /\ upstream_resp = None

\* C23 witness: the upstream connection of an accepted upgrade has failed
C23_Witness ==
    /\ C23_ConnectFailed
    /\ resp # None
    /\ Unwrap(resp).status = 101
    /\ legs["client"] = "closed"

\* The URL of the connection attempt of the tunnel
C24_Url == ws_connects[1].url

\* A URI text without its "<scheme>://"
C24_AfterScheme(text) == SubSeq(text, SchemeLen(text) + 4, Len(text))

(***************************************************************************)
(* C24.  The URL of the upstream WebSocket connection reads                *)
(* <s>://<authority of the target><inbound path and query, "/" when the    *)
(* inbound URI has none>, where s is "wss" when the scheme of the target   *)
(* is https and "ws" for any other scheme and for a target without one;    *)
(* whenever build_upstream_uri succeeds on the same inputs, what follows    *)
(* the scheme is the same in both.                                         *)
(***************************************************************************)
C24_WebSocketUrl ==
    ws_connects # <<>> =>
        /\ target = "https://api.example.com" =>
              C24_Url = "wss://api.example.com" \o C6_InboundPathAndQuery
        /\ target \in {"http://backend:8080", "http://backend:8080/base?x=1",
                       "wss://backend:8080", "backend:8080"} =>
              C24_Url = "ws://backend:8080" \o C6_InboundPathAndQuery
        /\ target = "/base" => C24_Url = "ws://" \o C6_InboundPathAndQuery
        /\ target \notin {"not a url", ""}
        /\ SubSeq(C24_Url, 1, SchemeLen(C24_Url)) =
              (IF starts_with(target, "https://") THEN "wss" ELSE "ws")
        /\ LET upstream_uri == build_upstream_uri(req.uri, target)
           IN  upstream_uri.ok =>
                  C24_AfterScheme(C24_Url) =
                     C24_AfterScheme(uri_to_string(upstream_uri.val))

\* C24 witness: a connection to "wss://api.example.com/h2?x=1" for a target
\* with the scheme https
C24_Witness ==
    /\ target = "https://api.example.com"
    /\ Len(ws_connects) = 1
    /\ C24_Url = "wss://api.example.com/h2?x=1"

\* C24 witness of the other schemes: a target with the scheme wss is
\* connected to with ws
C24_WitnessOtherScheme ==
    /\ target = "wss://backend:8080"
    /\ Len(ws_connects) = 1
    /\ C24_Url = "ws://backend:8080/search?q=hello&page=2"

\* An absolute URI: it parses, with a scheme and an authority
C25_IsAbsolute(text) ==
    LET uri == ParseUri(text)
    IN  /\ uri.ok
        /\ IsSome(scheme_str(uri.val))
        /\ IsSome(authority(uri.val))

\* forward_request has answered 502 for the URI and asked nothing of the
\* upstream
C25_Refused ==
    /\ pc = "done"
    /\ IsSynthesized502(Returned)
    /\ \E e \in {"empty string", "invalid uri character", "invalid format"} :
          Returned.body = "502 Bad Gateway - Invalid upstream URI: " \o e
    /\ upstream_reqs = <<>>
    /\ upstream_resp = None
    /\ log = <<"Failed to build upstream URI">>

(***************************************************************************)
(* C25 (as claimed).  Once forward_request has run for a target that is    *)
(* not an absolute URI (scheme and authority both present),                *)
(* build_upstream_uri has failed and the answer is a 502 naming the        *)
(* failure, with no upstream request.  Fails: the target "backend:8080"    *)
(* parses as an authority and is forwarded to with the scheme http.        *)
(***************************************************************************)
C25_AsClaimed ==
    (Forwarded /\ pc # "start" /\ ~C25_IsAbsolute(target)) =>
        /\ ~build_upstream_uri(req.uri, target).ok
        /\ C25_Refused

(***************************************************************************)
(* C25 (amended).  build_upstream_uri fails exactly when the target does   *)
(* not parse as a URI or parses without an authority; a target that is an  *)
(* authority alone ("backend:8080") is accepted and gets the scheme http.  *)
(* Whenever it fails forward_request answers with a 502 whose body names   *)
(* the failure, and no upstream request is issued; whenever it succeeds    *)
(* the answer is not that 502.                                             *)
(***************************************************************************)
C25_InvalidTarget ==
    (Forwarded /\ pc # "start") =>
        LET upstream_uri == build_upstream_uri(req.uri, target)
            target_uri == ParseUri(target)
        IN  /\ upstream_uri.ok <=>
                  (target_uri.ok /\ IsSome(authority(target_uri.val)))
            /\ target \in {"/base", "not a url", ""} => ~upstream_uri.ok
            /\ target = "backend:8080" =>
                  /\ upstream_uri.ok
                  /\ upstream_reqs # <<>>
                  /\ uri_to_string(Outbound.uri)
                       = "http://backend:8080" \o C6_InboundPathAndQuery
            /\ ~upstream_uri.ok => C25_Refused
            /\ upstream_uri.ok => ~C25_Refused

\* C25 witness: a target that parses but has no authority was refused
C25_Witness ==
    /\ Forwarded
    /\ target = "/base"
    /\ C25_Refused
    /\ Returned.body = "502 Bad Gateway - Invalid upstream URI: invalid format"

\* C25 witness of the accepted case: a request went out for the target
\* "backend:8080"
C25_WitnessAuthorityOnly ==
    /\ Forwarded
    /\ target = "backend:8080"
    /\ upstream_reqs # <<>>

\* The tunnel is over and the task holds no connection to the upstream
C26_Released == TunnelOver /\ legs["upstream"] # "open"

(***************************************************************************)
(* C26 (as claimed).  Once the client has closed its connection after the  *)
(* 101 (while the task waits for the client upgrade, connects to the       *)
(* upstream, or relays), the tunnel is eventually over and the upstream    *)
(* connection released, whatever the upstream does or does not do.         *)
(* Fails: while the task awaits connect_async_tls_with_config it does not  *)
(* look at the client connection, and it stays there for as long as the    *)
(* upstream leaves the connection attempt unanswered.                      *)
(***************************************************************************)
C26_AsClaimed == ClientClosed ~> C26_Released

(***************************************************************************)
(* C26 (the code).  Once the client has closed its connection, the tunnel  *)
(* is eventually over or the task is still at the connection attempt; and  *)
(* from a tunnel that relays, it is eventually over.                       *)
(***************************************************************************)
C26_ExceptWhileConnecting ==
    /\ ClientClosed ~> (C26_Released \/ tunnel = "connecting")
    /\ (ClientClosed /\ Relaying) ~> C26_Released

\* C26 witness: the client is gone and the task is at the connection
\* attempt
C26_Witness ==
    /\ ClientClosed
    /\ tunnel = "connecting"
    /\ Len(ws_connects) = 1
    /\ Unwrap(resp).status = 101

\* C26 witness of the relaying case: the tunnel is over, closed by the loop
\* that found the client gone, with no word from the upstream
C26_WitnessRelaying ==
    /\ TunnelOver
    /\ loops[c2u] = "ended"
    /\ loops[u2c] = "dropped"
    /\ AllSent(u2c) = <<>>
    /\ legs = [l \in Legs |-> "closed"]
    /\ received[c2u] # <<>>

(***************************************************************************)
(* C27.  Every request handed to the HTTP client has the version HTTP/1.1, *)
(* whatever the version of the inbound request, and the method and the     *)
(* body of the inbound request; it is a request of the same parts, of      *)
(* which only the URI, the version and the headers may differ.             *)
(***************************************************************************)
C27_VersionPinned ==
    \A i \in 1..Len(upstream_reqs) :
        /\ upstream_reqs[i].version = "HTTP/1.1"
        /\ upstream_reqs[i].method = req.method
        /\ upstream_reqs[i].body = req.body
        /\ DOMAIN upstream_reqs[i] = DOMAIN req
        /\ \A part \in DOMAIN req \ {"uri", "version", "headers"} :
              upstream_reqs[i][part] = req[part]

\* C27 witness: an HTTP/2.0 request to another authority went out as
\* HTTP/1.1 with another URI and other headers
C27_Witness ==
    /\ Forwarded
    /\ upstream_reqs # <<>>
    /\ req.version = "HTTP/2.0"
    /\ Outbound.version = "HTTP/1.1"
    /\ Outbound.uri # req.uri
    /\ Outbound.headers # req.headers
    /\ Outbound.method = "GET"

\* C27 witness of the body: a POST with a body went out as a POST with the
\* same body
C27_WitnessBody ==
    /\ Forwarded
    /\ upstream_reqs # <<>>
    /\ req.method = "POST"
    /\ Outbound.method = "POST"
    /\ Outbound.body = "name=value"

\* The header steps in the order of the code and in the order of the
\* specification, on the headers of the inbound request
C28_CodeOrder == C20_InOrder(header_pipeline, req.headers)
C28_SpecOrder == C20_InOrder(C20_ClaimedOrder, req.headers)

(***************************************************************************)
(* C28.  For every inbound header set and peer address, the header steps   *)
(* in the order of the code (forwarding headers, hop-by-hop stripping,     *)
(* cookie normalization) and in the order of the specification (cookie     *)
(* normalization, forwarding headers, hop-by-hop stripping) both succeed   *)
(* and give the same header set, name by name and line by line (checked    *)
(* on every request as it arrives); and this is the header set of every    *)
(* request that was sent.                                                  *)
(***************************************************************************)
C28_StepsCommute ==
    /\ pc = "start" =>
          /\ C28_CodeOrder.ok
          /\ C28_CodeOrder = C28_SpecOrder
    /\ \A i \in 1..Len(upstream_reqs) :
          upstream_reqs[i].headers = C28_SpecOrder.val

\* C28 witness: a request with two X-Forwarded-For lines, a Connection line
\* and two Cookie lines was sent, and each step has changed its headers
C28_Witness ==
    /\ Forwarded
    /\ upstream_reqs # <<>>
    /\ Len(get_all(req.headers, "x-forwarded-for")) = 2
    /\ Len(InboundCookies) = 2
    /\ contains_key(req.headers, "connection")
    /\ Outbound.headers = C28_SpecOrder.val
    /\ get_all(Outbound.headers, "x-forwarded-for")
         = <<"10.0.0.3, " \o PeerText>>
    /\ OutboundCookies = <<"session=abc; token=xyz">>
    /\ ~contains_key(Outbound.headers, "connection")

\* The lines of a name in the inbound and in the outbound request
C29_In(name) == get_all(req.headers, name)
C29_Out(name) == get_all(Outbound.headers, name)

(***************************************************************************)
(* C29 (as claimed).  A request that was sent holds exactly one line each  *)
(* of X-Real-IP, X-Forwarded-For, X-Forwarded-Proto and X-Forwarded-Port.  *)
(* Fails: X-Forwarded-Proto and X-Forwarded-Port are only inserted when    *)
(* absent, so a request that came with two lines of one of them goes out   *)
(* with both.                                                              *)
(***************************************************************************)
C29_AsClaimed ==
    (Forwarded /\ upstream_reqs # <<>>) =>
        \A name \in {"x-real-ip", "x-forwarded-for", "x-forwarded-proto",
                     "x-forwarded-port"} :
            Len(C29_Out(name)) = 1

(***************************************************************************)
(* C29 (amended).  A request that was sent holds exactly one X-Real-IP     *)
(* line, the peer IP, and exactly one X-Forwarded-For line, however many   *)
(* lines of them came in; with several inbound X-Forwarded-For lines the   *)
(* line is built from the first of them alone and the others are gone.     *)
(* X-Forwarded-Proto and X-Forwarded-Port are one line ("https", "443")    *)
(* when the request brought none, and otherwise the lines the request      *)
(* brought, all of them.                                                   *)
(***************************************************************************)
C29_ForwardingLines ==
    (Forwarded /\ upstream_reqs # <<>>) =>
        /\ C29_Out("x-real-ip") = <<PeerText>>
        /\ Len(C29_Out("x-forwarded-for")) = 1
        /\ C29_Out("x-forwarded-for")[1] =
              IF C29_In("x-forwarded-for") # <<>>
                 /\ C7_Usable(C29_In("x-forwarded-for")[1])
              THEN C29_In("x-forwarded-for")[1] \o ", " \o PeerText
              ELSE PeerText
        /\ C29_Out("x-forwarded-proto") =
              IF C29_In("x-forwarded-proto") = <<>> THEN <<"https">>
              ELSE C29_In("x-forwarded-proto")
        /\ C29_Out("x-forwarded-port") =
              IF C29_In("x-forwarded-port") = <<>> THEN <<"443">>
              ELSE C29_In("x-forwarded-port")

\* C29 witness: a request with two lines of each of the four names went out
\* with one X-Real-IP line, one X-Forwarded-For line made of the first
\* inbound one, and both lines of X-Forwarded-Proto and X-Forwarded-Port
C29_Witness ==
    /\ Forwarded
    /\ upstream_reqs # <<>>
    /\ C29_In("x-real-ip") = <<"6.6.6.6", "7.7.7.7">>
    /\ C29_In("x-forwarded-for") = <<"10.0.0.1", "10.0.0.3">>
    /\ C29_Out("x-real-ip") = <<PeerText>>
    /\ C29_Out("x-forwarded-for") = <<"10.0.0.1, " \o PeerText>>
    /\ C29_Out("x-forwarded-proto") = <<"http", "https">>
    /\ C29_Out("x-forwarded-port") = <<"8443", "443">>

\* The names of the upstream handshake: those tungstenite writes itself
C30_OwnNames ==
    {"host", "connection", "upgrade", "sec-websocket-version",
     "sec-websocket-key"}

\* The names the header steps of build_upstream_request always leave behind
C30_PipelineNames ==
    {"x-real-ip", "x-forwarded-for", "x-forwarded-proto", "x-forwarded-port"}

\* The request of the handshake of a connection attempt carries nothing of
\* the inbound request
C30_FromUrlAlone(attempt) ==
    /\ attempt.url = upstream_websocket_url(req, ParseUri(target).val)
    /\ attempt.request = into_client_request(attempt.url)
    /\ attempt.request.ok =>
          LET own == attempt.request.val
          IN  /\ DOMAIN own.headers = C30_OwnNames
              /\ uri_to_string(own.uri) = attempt.url
              /\ own.headers["host"] = <<Unwrap(authority(own.uri))>>
              /\ own.headers["sec-websocket-key"] = <<generate_key>>
              /\ own.headers["sec-websocket-key"]
                   # get_all(req.headers, "sec-websocket-key")
              /\ \A name \in DOMAIN req.headers \ C30_OwnNames :
                    ~contains_key(own.headers, name)
              /\ \A name \in {"cookie", "authorization",
                              "sec-websocket-protocol", "x-forwarded-host"}
                             \cup C30_PipelineNames :
                    ~contains_key(own.headers, name)

(***************************************************************************)
(* C30.  A request classified as a WebSocket upgrade never goes to         *)
(* forward_request and never causes a request through the HTTP client;     *)
(* and the handshake with the upstream WebSocket is made from the computed *)
(* URL alone: it carries the five headers of a WebSocket client with a key *)
(* of its own, no header of the inbound request (Cookie, Authorization,    *)
(* Sec-WebSocket-Protocol, the X-Forwarded ones), and none of the headers  *)
(* the header steps of build_upstream_request would add.                   *)
(***************************************************************************)
C30_UpgradeBypassesClient ==
    is_websocket_upgrade(req) =>
        /\ upstream_reqs = <<>>
        /\ upstream_resp = None
        /\ pc # "awaiting_upstream"
        /\ \A i \in 1..Len(calls) : calls[i] = "handle_websocket_upgrade"
        /\ \A i \in 1..Len(ws_connects) : C30_FromUrlAlone(ws_connects[i])

\* C30 witness: the tunnel of a handshake with a Cookie, an Authorization,
\* a Sec-WebSocket-Protocol and an X-Forwarded-For line relays, over a
\* connection whose handshake had none of them and another Host
C30_Witness ==
    /\ is_websocket_upgrade(req)
    /\ \A name \in {"cookie", "authorization", "sec-websocket-protocol",
                    "x-forwarded-for", "host"} : contains_key(req.headers, name)
    /\ Relaying
    /\ Len(ws_connects) = 1
    /\ ws_connects[1].request.ok
    /\ ws_connects[1].request.val.headers["host"] = <<"backend:8080">>
    /\ get_all(req.headers, "host") = <<"example.com">>
    /\ upstream_reqs = <<>>

\* C30 witness of a URL no handshake can be made from: the attempt for the
\* target "/base" fails before a request exists
C30_WitnessNoHost ==
    /\ target = "/base"
    /\ Len(ws_connects) = 1
    /\ ~ws_connects[1].request.ok
    /\ tunnel = "closed"

(***************************************************************************)
(* The tunnels alone, with peers that send in both directions and with     *)
(* nothing assumed of how fast anything goes: a loop may stay for ever at  *)
(* `next()` (its source sends nothing more) or in `send(msg)` (its         *)
(* destination does not take the message).                                 *)
(***************************************************************************)
TunnelNext ==
    \/ HandleWebsocketUpgrade
    \/ ClientUpgraded
    \/ ClientUpgradeFails
    \/ UpstreamConnected
    \/ UpstreamConnectFails
    \/ \E d \in Directions : PeerSends(d)
    \/ Relays
    \/ RelayEnds

TunnelSpec == EchoInit /\ [][TunnelNext]_vars

\* The direction opposite to d
OppositeOf(d) == IF d = c2u THEN u2c ELSE c2u

\* What the loop of direction d works on
TrafficOf(d) == <<pending[d], received[d], held[d], delivered[d]>>

\* The loop of direction d waits: at `next()` with nothing to read, or in
\* `send(msg)`
C31_Waiting(d) ==
    /\ loops[d] = "running"
    /\ \/ held[d] = None /\ pending[d] = <<>>
       \/ held[d] # None

\* While the tunnel relays, the loop of direction d can take a message that
\* has arrived and can complete a send, wherever the other loop stands
C31_State ==
    Relaying =>
        \A d \in Directions :
            /\ loops[d] = "running"
            /\ (held[d] = None /\ pending[d] # <<>>) => ENABLED RelayReceives(d)
            /\ held[d] # None => ENABLED RelaySends(d)
            /\ (C31_Waiting(c2u) /\ C31_Waiting(u2c)
                  /\ \E x \in Directions : held[x] # None)
                 => ENABLED Relays

\* A step of one loop leaves alone what the other loop works on, and the
\* other loop itself
C31_Step ==
    \A d \in Directions :
        (RelayReceives(d) \/ RelaySends(d)) =>
            /\ UNCHANGED TrafficOf(OppositeOf(d))
            /\ UNCHANGED loops

\* The k-th message of direction d has been sent by the source
C31_Sent(d, k) == Relaying /\ Len(AllSent(d)) >= k

\* The k-th message of direction d has been delivered, or the tunnel is over
C31_Relayed(d, k) == Len(delivered[d]) >= k \/ TunnelOver

(***************************************************************************)
(* C31.  The two relay loops of a tunnel make progress independently.      *)
(* While the tunnel relays both loops run; a loop can take a message that  *)
(* has arrived and can complete its send whether the other loop waits at   *)
(* `next()`, waits in `send(msg)` or goes on; its steps change nothing of  *)
(* what the other loop works on; and there is no state with both loops     *)
(* waiting, a message in hand, and no step possible.  For each direction:  *)
(* if only the loop of that direction is polled whenever it can go on and  *)
(* its sends complete (nothing at all being assumed of the other loop,     *)
(* which may stay in its `send` or at its `next()` for ever), every        *)
(* message sent in that direction is delivered, unless the tunnel ends.    *)
(***************************************************************************)
C31_LoopsIndependent ==
    /\ []C31_State
    /\ [][C31_Step]_vars
    /\ \A d \in Directions : \A k \in 1..MaxMessages :
          WF_vars(LoopStep(d)) => (C31_Sent(d, k) ~> C31_Relayed(d, k))

\* C31 witness: the client-to-upstream loop is in the send of its first
\* message, no message has reached the upstream, and the upstream-to-client
\* loop has received and delivered a message
C31_Witness ==
    /\ Relaying
    /\ held[c2u] # None
    /\ delivered[c2u] = <<>>
    /\ received[u2c] # <<>>
    /\ delivered[u2c] = received[u2c]

\* C31 witness: both loops are in a send at once
C31_WitnessBothSending ==
    /\ Relaying
    /\ held[c2u] # None
    /\ held[u2c] # None

====
